---------------------------- MODULE Spec2Model ----------------------------
(***************************************************************************)
(* Pipeline orchestrator of photoBomb: one Pipeline row, its PipelineTask  *)
(* rows, the Photo rows they refer to, and the Celery jobs                 *)
(* (process_photo_initial = Phase 1, process_photo_analysis = Phase 2)     *)
(* that update them through app/services/pipeline_service.py.              *)
(*                                                                         *)
(* Every database transaction of the source is one atomic step.  The       *)
(* worker jobs open several short sessions in a row and are split at       *)
(* those points.  update_pipeline_progress reads (status counts, Pipeline  *)
(* row) and later commits; PostgreSQL runs it READ COMMITTED, so other     *)
(* transactions commit between its reads and its commit: it is two steps.  *)
(* SQLAlchemy's unit of work writes only the columns whose value differs   *)
(* from the value that was loaded; ProgressCommit models that.             *)
(*                                                                         *)
(* Timestamps are abstracted to "set / not set" (TRUE / FALSE).            *)
(***************************************************************************)
EXTENDS Integers, FiniteSets, Sequences, TLC

\* ------------------------------------------------------------------ bounds
MaxPhotos == 2    \* photos (and so tasks of the pipeline)
MaxJobs == 2      \* jobs ever enqueued in Spec

\* The specifications without cancel and rerun (LiveSpec, IngestSpec) afford
\* every photo its two jobs.
LiveJobs == 2 * MaxPhotos

Photos == 1..MaxPhotos
JobIds == 1..LiveJobs

VARIABLES
    pipeline,   \* the Pipeline row (status "none": not created yet)
    tasks,      \* photo id -> PipelineTask row of the pipeline (status "none": no row)
    photos,     \* photo id -> Photo row
    jobs,       \* Celery job id -> job (pc "none": id not used yet)
    completions, \* history: how often the pipeline's status became 'completed'
    unavailable, \* the enrichment engines that do not work in this deployment
    images,     \* photo id -> what the engines find in the stored original
    query_order, \* the order in which the database returns the rows of a query
    tag_rows,   \* tag name -> category of the Tag row ("absent": no row)
    photo_tags, \* <<photo id, tag name>> -> confidences of the PhotoTag rows
    detections, \* photo id -> number of Face and AnimalDetection rows
    faces,      \* face id -> Face row (encoding, person_id; 0 is NULL)
    persons,    \* person id -> whether the Person row exists
    animal_detections, \* detection id -> AnimalDetection row (label, embedding, animal_id)
    animals,    \* animal id -> Animal row (name; whether the user renamed it)
    cover_face_id, \* person id -> Person.cover_face_id (0 is NULL)
    cover_detection_id, \* animal id -> Animal.cover_detection_id (0 is NULL)
    cluster_jobs, \* clustering job id -> job of face_worker.py
    upload,     \* one stored original and what Phase 1 derives from it
    storage     \* photo id -> the crop images in storage (temporary keys, final keys)

\* What a behaviour never changes, the rows the enrichment writes, and the
\* rows and jobs of clustering.
deployment == <<unavailable, images, query_order>>
enrichment == <<tag_rows, photo_tags, detections>>
clustering == <<faces, persons, animal_detections, animals, cluster_jobs,
               cover_face_id, cover_detection_id>>

vars == <<pipeline, tasks, photos, jobs, completions, deployment, enrichment, clustering,
          upload, storage>>

\* ----------------------------------------------------------------- rows
NoPipeline ==
    [status |-> "none", total_photos |-> 0, completed_photos |-> 0,
     failed_photos |-> 0, skipped_photos |-> 0,
     completed_at |-> FALSE, cancelled_at |-> FALSE]

NoTask ==
    [status |-> "none", celery_task_id |-> 0, started_at |-> FALSE,
     completed_at |-> FALSE, total_time_ms |-> FALSE,
     error_type |-> "none", error_message |-> "none", retry_count |-> 0]

NoCounts == [completed |-> 0, failed |-> 0, skipped |-> 0]

\* max_retries of the two Celery tasks (thumbnail_worker.py 224 and 510).
InitialMaxRetries == 3
AnalysisMaxRetries == 2
MaxRetries(phase) == IF phase = 1 THEN InitialMaxRetries ELSE AnalysisMaxRetries

\* What a Phase 2 run holds in memory for its batch write (face_results,
\* animal_results, the unique tags not yet written), and the state of its
\* write session: whether it has begun, whether a rollback has discarded what
\* was flushed, and the category updates it has pending.
NoResults == [faces |-> 0, animals |-> 0, tags |-> <<>>]
NoSession == [open |-> FALSE, lost |-> FALSE, categories |-> {}]

\* retries is self.request.retries: Celery raises it when a run calls
\* self.retry() or matches autoretry_for; the tasks do neither.
NoJob ==
    [phase |-> 0, photo |-> 0, tracked |-> FALSE, pc |-> "none", retries |-> 0,
     revoked |-> FALSE, ok |-> FALSE, snap |-> NoCounts, loaded |-> NoPipeline,
     results |-> NoResults, seen |-> "unread", session |-> NoSession]

TerminalStatuses == {"completed", "failed", "cancelled", "skipped"}
ActiveStatuses == {"pending", "queued", "running"}

\* Job ids in use, and the next free one (Celery gives every send_task a fresh id).
UsedJobs == {j \in JobIds : jobs[j].pc # "none"}
\* Whether n more jobs fit under the bound `limit` on the jobs ever enqueued.
JobsFit(n, limit) == Cardinality(UsedJobs) + n <= limit

NewJob(ph, phase, tracked) ==
    [phase |-> phase, photo |-> ph, tracked |-> tracked, pc |-> "queued",
     retries |-> 0, revoked |-> FALSE, ok |-> FALSE, snap |-> NoCounts, loaded |-> NoPipeline,
     results |-> NoResults, seen |-> "unread", session |-> NoSession]

\* Number of task rows of the pipeline in status st (the GROUP BY of
\* update_pipeline_progress; status_counts.get(st, 0)).
CountStatus(st) == Cardinality({ph \in Photos : tasks[ph].status = st})

TaskRows == {ph \in Photos : tasks[ph].status # "none"}


\* ------------------------------------------------- pipeline_service.py
\* update_pipeline_task_status: unconditional overwrite of the task's status
\* (no check of the current status); a missing row is only logged.
update_pipeline_task_status(ph, st, jid) ==
    IF tasks[ph].status = "none" THEN tasks
    ELSE [tasks EXCEPT ![ph].status = st,
                       ![ph].celery_task_id = jid,
                       ![ph].started_at = TRUE]

update_pipeline_task_complete(ph, st) ==
    IF tasks[ph].status = "none" THEN tasks
    ELSE [tasks EXCEPT ![ph].status = st,
                       ![ph].completed_at = TRUE,
                       ![ph].total_time_ms = TRUE]

update_pipeline_task_error(ph, etype, message) ==
    IF tasks[ph].status = "none" THEN tasks
    ELSE [tasks EXCEPT ![ph].status = "failed",
                       ![ph].error_type = etype,
                       ![ph].error_message = message,
                       ![ph].completed_at = TRUE,
                       ![ph].retry_count = @ + 1]

\* str(e) of the exception a failed run reports; only the messages the
\* properties tell apart are spelled out.
ErrorText(etype) ==
    IF etype = "download_failed" THEN "Failed to download original" ELSE "error"
ImportErrorText == "No module named 'transformers'"
TypeErrorText == "'source' is an invalid keyword argument for PhotoTag"

\* The status counts read by the first query of update_pipeline_progress.
StatusCounts ==
    [completed |-> CountStatus("completed"),
     failed    |-> CountStatus("failed"),
     skipped   |-> CountStatus("skipped")]

\* Lines 203-206: the counts have reached the total of the loaded row.
ReachedTotal(loaded, snap) ==
    /\ loaded.total_photos > 0
    /\ snap.completed + snap.failed + snap.skipped >= loaded.total_photos

\* Variant of ProgressRow that marks the pipeline completed at every recompute.
ProgressRowNoThreshold(loaded, snap) ==
    [loaded EXCEPT !.completed_photos = snap.completed,
                   !.failed_photos = snap.failed,
                   !.skipped_photos = snap.skipped,
                   !.status = "completed", !.completed_at = TRUE]

\* The row update_pipeline_progress computes from the loaded row and the counts.
ProgressRow(loaded, snap) ==
    LET counted == [loaded EXCEPT !.completed_photos = snap.completed,
                                  !.failed_photos = snap.failed,
                                  !.skipped_photos = snap.skipped]
    IN  IF ReachedTotal(loaded, snap)
        THEN [counted EXCEPT !.status = "completed", !.completed_at = TRUE]
        ELSE counted

\* The UPDATE the session flushes: only the columns whose new value differs
\* from the loaded one are written; the others keep what the row holds.
\* completed_at is assigned a fresh utcnow(), which differs from any loaded
\* value, so it is written whenever it is assigned.
FlushRow(current, loaded, new) ==
    [f \in DOMAIN current |->
        IF new[f] # loaded[f] \/ (f = "completed_at" /\ new.status = "completed"
                                                     /\ new.completed_at)
        THEN new[f] ELSE current[f]]

\* Variant of create_pipeline_with_tasks that sets total_photos to a fixed number.
create_pipeline_fixed_total(ids) ==
    /\ pipeline' = [NoPipeline EXCEPT !.status = "running", !.total_photos = MaxPhotos]
    /\ tasks' = [ph \in Photos |->
                    IF ph \in ids THEN [NoTask EXCEPT !.status = "queued"]
                    ELSE tasks[ph]]

\* create_pipeline_with_tasks: one Pipeline row, one queued task per photo id.
create_pipeline_with_tasks(ids) ==
    /\ pipeline' = [NoPipeline EXCEPT !.status = "running",
                                      !.total_photos = Cardinality(ids)]
    /\ tasks' = [ph \in Photos |->
                    IF ph \in ids THEN [NoTask EXCEPT !.status = "queued"]
                    ELSE tasks[ph]]

\* ------------------------------------------------------------ job queue
\* Ids are handed out in order, so the used ids are 1..Cardinality(UsedJobs).
JobIdFor(S, ph) == Cardinality(UsedJobs) + Cardinality({q \in S : q < ph}) + 1

\* send_task for every photo of S (one job each).
EnqueueAll(S, phase, tracked) ==
    [j \in JobIds |->
        IF \E ph \in S : JobIdFor(S, ph) = j
        THEN NewJob(CHOOSE ph \in S : JobIdFor(S, ph) = j, phase, tracked)
        ELSE jobs[j]]

SetJob(j, rec) == [jobs EXCEPT ![j] = rec]


\* ------------------------------------------------------------ enrichment
\* The engines of the two phases that fail softly: the face library
\* (get_face_recognition, lines 70-85), the animal detector, the CLIP model
\* behind classify_image and classify_document, the transformers library
\* they load it with, the OCR binary and the reverse geocoder.
Engines == {"face", "animal", "classifier", "transformers", "ocr", "geocoder"}

\* Tag names: "food" and "text" are candidate labels of classifier.py (11-27),
\* "menu" is a label of document_classifier.py (8-33), "bird" is a label of
\* the animal detector; each is also a word OCR can read (alphanumeric, more
\* than three characters).
TagNames == {"food", "text", "menu", "bird"}

\* Confidence grades; the highest stands for the 1.0 that OCR tags carry
\* (line 746), the others for detector and classifier scores below 1.0.
OcrScore == 3
Scores == 1..OcrScore

\* What the engines find in an image: the number of faces, the animal
\* detections, CLIP labels and document labels (name -> score, 0: not found),
\* the words OCR reads, and whether the EXIF block carries GPS.
NoFindings == [n \in TagNames |-> 0]
NoImage ==
    [faces |-> 0, animals |-> NoFindings, labels |-> NoFindings,
     documents |-> NoFindings, words |-> {}, gps |-> FALSE]

NoDetections == [faces |-> 0, animals |-> 0]
Found(f) == {n \in TagNames : f[n] > 0}

\* classifier.py 41-53.
determine_category(label) ==
    IF label \in {"person", "man", "woman", "human", "child", "group of people",
                  "selfie", "crowd"} THEN "people"
    ELSE IF label \in {"animal", "dog", "cat", "bird", "wildlife", "pet", "horse"}
         THEN "animals"
    ELSE IF label \in {"document", "receipt", "invoice", "text", "paper", "screenshot",
                       "computer screen", "interface", "software",
                       "nature", "beach", "mountain", "forest", "sunset", "sky",
                       "tree", "flower", "outdoor",
                       "city", "building", "architecture", "street", "house",
                       "landmark", "room", "indoor"} THEN "documents"
    ELSE "general"

\* The sequences that list the elements of a finite set once each.
Orders(S) ==
    {s \in [1..Cardinality(S) -> S] : \A i, k \in 1..Cardinality(S) : i # k => s[i] # s[k]}

\* classify_image (classifier.py 55-86) and classify_document
\* (document_classifier.py 48-66) return [] on any exception, so also when
\* the model cannot be loaded.
classify_image(ph) ==
    IF {"classifier", "transformers"} \cap unavailable # {} THEN NoFindings
    ELSE images[ph].labels

classify_document(ph) ==
    IF {"classifier", "transformers"} \cap unavailable # {} THEN NoFindings
    ELSE images[ph].documents

\* Lines 593-645 and 650-690: a failure of the face library or of the animal
\* detector is caught inside its block; the list stays empty.
FaceResults(ph) == IF "face" \in unavailable THEN 0 ELSE images[ph].faces
AnimalResults(ph) == IF "animal" \in unavailable THEN NoFindings ELSE images[ph].animals
\* Lines 731-755.
OcrWords(ph) == IF "ocr" \in unavailable THEN {} ELSE images[ph].words

TagEntry(n, c, s) == [name |-> n, category |-> c, confidence |-> s]

\* The tag_results lists a Phase 2 run can build (lines 682-687, 704-727,
\* 741-746): animal tags, CLIP labels, document labels when a CLIP label is a
\* document, OCR words; the order inside each group is the engine's.
TagResults(ph) ==
    LET an == AnimalResults(ph)
        lb == classify_image(ph)
        dc == IF \E n \in Found(lb) : determine_category(n) = "documents"
              THEN classify_document(ph) ELSE NoFindings
    IN  { [i \in 1..Len(a) |-> TagEntry(a[i], "animals", an[a[i]])]
          \o [i \in 1..Len(l) |-> TagEntry(l[i], determine_category(l[i]), lb[l[i]])]
          \o [i \in 1..Len(d) |-> TagEntry(d[i], "documents", dc[d[i]])]
          \o [i \in 1..Len(w) |-> TagEntry(w[i], "text", OcrScore)] :
            a \in Orders(Found(an)), l \in Orders(Found(lb)),
            d \in Orders(Found(dc)), w \in Orders(OcrWords(ph)) }

\* Lines 816-826: one entry per tag name, the first one unless a later one has
\* a strictly higher confidence; the name keeps its first position.
RECURSIVE unique_tags(_)
unique_tags(tag_results) ==
    IF tag_results = <<>> THEN <<>>
    ELSE LET before == unique_tags(SubSeq(tag_results, 1, Len(tag_results) - 1))
             tag_data == tag_results[Len(tag_results)]
             at == {i \in 1..Len(before) : before[i].name = tag_data.name}
         IN  IF at = {} THEN Append(before, tag_data)
             ELSE LET i == CHOOSE i \in at : TRUE
                  IN  IF tag_data.confidence > before[i].confidence
                      THEN [before EXCEPT ![i] = tag_data]
                      ELSE before


\* Clustering jobs (face_worker.py): two at a time.  The tables they work
\* on, empty.
ClusterJobIds == {1, 2}

\* A job that is "done" shows what its run had read.
NoClusterJob ==
    [kind |-> "none", pc |-> "none", force_reset |-> FALSE, read |-> {}, deleted |-> {}]

\* No original is being looked at.
NoUpload == [pc |-> "none"]

\* No crop image is stored.
NoCrops == [ph \in Photos |-> [temp |-> 0, crops |-> 0]]

NoClustering ==
    /\ faces = <<>>
    /\ persons = <<>>
    /\ animal_detections = <<>>
    /\ animals = <<>>
    /\ cluster_jobs = [r \in ClusterJobIds |-> NoClusterJob]
    /\ cover_face_id = <<>>
    /\ cover_detection_id = <<>>

\* A deployment where every engine works, photos in which the engines find
\* nothing, and empty tag, link and detection tables.
NoEnrichment ==
    /\ unavailable = {}
    /\ images = [ph \in Photos |-> NoImage]
    /\ query_order = "id"
    /\ tag_rows = [n \in TagNames |-> "absent"]
    /\ photo_tags = [l \in Photos \X TagNames |-> <<>>]
    /\ detections = [ph \in Photos |-> NoDetections]

\* --------------------------------------------------------------- Init
Init ==
    /\ pipeline = NoPipeline
    /\ tasks = [ph \in Photos |-> NoTask]
    /\ photos = [ph \in Photos |-> [row |-> TRUE, meta |-> FALSE, location_name |-> FALSE,
                                     processed_at |-> FALSE]]
    /\ jobs = [j \in JobIds |-> NoJob]
    /\ completions = 0
    /\ NoEnrichment
    /\ NoClustering
    /\ upload = NoUpload
    /\ storage = NoCrops

\* ------------------------------------------------------------- submit
\* The enqueue half of submit (spec 4.1): each (pipeline_id, photo_id) pair is
\* handed to the queue as a Phase 1 job.  No caller of
\* create_pipeline_with_tasks exists in the source, so this half follows the
\* specification.
SubmitEnqueue(ids) == jobs' = EnqueueAll(ids, 1, TRUE)

Submit(ids, limit) ==
    /\ pipeline.status = "none"
    /\ \A ph \in ids : photos[ph].row
    /\ JobsFit(Cardinality(ids), limit)
    /\ create_pipeline_with_tasks(ids)
    /\ SubmitEnqueue(ids)
    /\ UNCHANGED <<deployment, clustering, upload, storage, enrichment, photos, completions>>

\* The second of the "two sequential jobs" of submit: the Phase 2 job of a
\* photo is handed to the queue after its tracked Phase 1 job has ended with
\* its metadata committed (spec 4.1 and 5).
SubmitEnqueueAnalysis(j, limit) ==
    /\ jobs[j].phase = 1 /\ jobs[j].tracked /\ jobs[j].pc = "done" /\ jobs[j].ok
    /\ JobsFit(1, limit)
    /\ jobs' = [EnqueueAll({jobs[j].photo}, 2, TRUE) EXCEPT ![j].pc = "chained"]
    /\ UNCHANGED <<deployment, clustering, upload, storage, enrichment, pipeline, tasks, photos, completions>>

\* ------------------------------------------- Phase 1: process_photo_initial
\* Lines 240-246: the job marks its task running and records its own id.
InitialStart(j) ==
    /\ jobs[j].phase = 1 /\ jobs[j].pc = "queued"
    /\ tasks' = IF jobs[j].tracked
                THEN update_pipeline_task_status(jobs[j].photo, "running", j)
                ELSE tasks
    /\ jobs' = SetJob(j, [jobs[j] EXCEPT !.pc = "body"])
    /\ UNCHANGED <<deployment, clustering, upload, storage, enrichment, pipeline, photos, completions>>

\* Where a job goes after its last task update: the progress recompute when it
\* tracks a pipeline, the end otherwise.
AfterTaskUpdate(j) == IF jobs[j].tracked THEN "progress" ELSE "done"

\* Lines 249-264: the Photo row is missing.
InitialNotFound(j) ==
    /\ jobs[j].phase = 1 /\ jobs[j].pc = "body"
    /\ ~photos[jobs[j].photo].row
    /\ tasks' = IF jobs[j].tracked
                THEN update_pipeline_task_error(jobs[j].photo, "not_found",
                                                "Photo not found in database")
                ELSE tasks
    /\ jobs' = SetJob(j, [jobs[j] EXCEPT !.pc = AfterTaskUpdate(j)])
    /\ UNCHANGED <<deployment, clustering, upload, storage, enrichment, pipeline, photos, completions>>

\* Lines 277-298 and 476-484: the original cannot be downloaded
\* ("download_failed"), or a later step raises ("processing_error").
InitialFail(j, etype) ==
    /\ jobs[j].phase = 1 /\ jobs[j].pc = "body"
    /\ photos[jobs[j].photo].row
    /\ tasks' = IF jobs[j].tracked
                THEN update_pipeline_task_error(jobs[j].photo, etype, ErrorText(etype))
                ELSE tasks
    /\ jobs' = SetJob(j, [jobs[j] EXCEPT !.pc = AfterTaskUpdate(j)])
    /\ UNCHANGED <<deployment, clustering, upload, storage, enrichment, pipeline, photos, completions>>

\* Lines 385-413: the place name is looked up when the EXIF block carries
\* GPS; a failure of the geocoder (its import included) is caught and leaves
\* location_name as it was.
Geocoded(ph) == images[ph].gps /\ "geocoder" \notin unavailable

\* Variant of InitialCommit that also stamps processed_at.
InitialCommitStampsProcessed(ph) ==
    [photos EXCEPT ![ph].meta = TRUE, ![ph].processed_at = TRUE,
                   ![ph].location_name = IF Geocoded(ph) THEN TRUE ELSE @]

\* The Photo columns the Phase 1 commit writes (lines 385-454): hashes, size,
\* EXIF, capture time, GPS, place name.  processed_at is not among them.
InitialCommit(ph) ==
    [photos EXCEPT ![ph].meta = TRUE,
                   ![ph].location_name = IF Geocoded(ph) THEN TRUE ELSE @]

\* Lines 317-470: thumbnails, hashes, metadata, commit of the Photo fields,
\* then the task is marked 'completed' and progress is recomputed.
\* This is the path the source spells out.  In the source as it stands the
\* path reads names that are never bound (tmp_path at line 326, gps_lat and
\* gps_lng at 422-423), so a run that gets past the download raises NameError
\* and ends in InitialFail(j, "processing_error"); the path is kept here
\* because every property of a successful Phase 1 is a property of it.
InitialSucceed(j) ==
    /\ jobs[j].phase = 1 /\ jobs[j].pc = "body"
    /\ photos[jobs[j].photo].row
    /\ photos' = InitialCommit(jobs[j].photo)
    /\ tasks' = IF jobs[j].tracked
                THEN update_pipeline_task_complete(jobs[j].photo, "completed")
                ELSE tasks
    /\ jobs' = SetJob(j, [jobs[j] EXCEPT !.pc = AfterTaskUpdate(j), !.ok = TRUE])
    /\ UNCHANGED <<deployment, clustering, upload, storage, enrichment, pipeline, completions>>

\* ---------------------------------------------- update_pipeline_progress
\* Lines 153-170: the status counts of the pipeline's tasks are read and the
\* Pipeline row is loaded into the session.
ProgressRead(j) ==
    /\ jobs[j].pc = "progress"
    /\ jobs' = SetJob(j, [jobs[j] EXCEPT !.pc = "write", !.snap = StatusCounts,
                                         !.loaded = pipeline])
    /\ UNCHANGED <<deployment, clustering, upload, storage, enrichment, pipeline, tasks, photos, completions>>

\* Lines 176-215: counters from the counts, status 'completed' when
\* processed >= total, commit.
ProgressCommit(j) ==
    /\ jobs[j].pc = "write"
    /\ pipeline' = FlushRow(pipeline, jobs[j].loaded,
                            ProgressRow(jobs[j].loaded, jobs[j].snap))
    /\ jobs' = SetJob(j, [jobs[j] EXCEPT !.pc = "done", !.revoked = FALSE,
                                         !.snap = NoCounts, !.loaded = NoPipeline])
    /\ completions' = IF pipeline.status # "completed" /\ pipeline'.status = "completed"
                      THEN completions + 1 ELSE completions
    /\ UNCHANGED <<deployment, clustering, upload, storage, enrichment, tasks, photos>>


\* ------------------------------------------ Phase 2: process_photo_analysis
\* Lines 524-532: the job marks its task running, whatever its status was.
AnalysisStart(j) ==
    /\ jobs[j].phase = 2 /\ jobs[j].pc = "queued"
    /\ tasks' = IF jobs[j].tracked
                THEN update_pipeline_task_status(jobs[j].photo, "running", j)
                ELSE tasks
    /\ jobs' = SetJob(j, [jobs[j] EXCEPT !.pc = "body"])
    /\ UNCHANGED <<deployment, clustering, upload, storage, enrichment, pipeline, photos, completions>>

\* Lines 539-553: the Photo row is missing.
AnalysisNotFound(j) ==
    /\ jobs[j].phase = 2 /\ jobs[j].pc = "body"
    /\ ~photos[jobs[j].photo].row
    /\ tasks' = IF jobs[j].tracked
                THEN update_pipeline_task_error(jobs[j].photo, "not_found",
                                                "Photo not found for analysis")
                ELSE tasks
    /\ jobs' = SetJob(j, [jobs[j] EXCEPT !.pc = AfterTaskUpdate(j)])
    /\ UNCHANGED <<deployment, clustering, upload, storage, enrichment, pipeline, photos, completions>>

\* Lines 578-584: the original cannot be downloaded; the job logs and returns
\* without touching its task and without a progress recompute.
AnalysisNoOriginal(j) ==
    /\ jobs[j].phase = 2 /\ jobs[j].pc = "body"
    /\ photos[jobs[j].photo].row
    /\ jobs' = SetJob(j, [jobs[j] EXCEPT !.pc = "done", !.revoked = FALSE])
    /\ UNCHANGED <<deployment, clustering, upload, storage, enrichment, pipeline, tasks, photos, completions>>

\* Lines 622-623 and 661-662: save_crop stores the crop of result idx under
\* the key temp_<photo>_<idx>, so n results leave the keys 1..n, whatever
\* was there.  (Face and animal crops have key spaces of their own; they are
\* counted together here.)
CropsSaved(ph, n) == [storage EXCEPT ![ph].temp = IF @ >= n THEN @ ELSE n]

\* Lines 789-798 and 806-814: the crop of each flushed row is downloaded from
\* its temporary key, uploaded under the row's id and the temporary key is
\* deleted; a crop that is not there is logged and passed over.
CropsRenamed(ph, n) ==
    LET moved == IF storage[ph].temp >= n THEN n ELSE storage[ph].temp
    IN  [storage EXCEPT ![ph].temp = @ - moved, ![ph].crops = @ + moved]

\* The crops a run moves when it opens its session for the batch write.
CropsFlushed(j) ==
    IF jobs[j].session.open THEN storage
    ELSE CropsRenamed(jobs[j].photo, jobs[j].results.faces + jobs[j].results.animals)

\* The crops a run has stored when it ends with an exception: those of the
\* faces when the import at line 699 fails, after the face block.
CropsAtRaise(j, message) ==
    IF jobs[j].pc = "body" /\ message = ImportErrorText
    THEN CropsSaved(jobs[j].photo, FaceResults(jobs[j].photo))
    ELSE storage

\* Lines 586-764: the engines ran; results are held in memory for the batch
\* write.  The face, animal and OCR blocks catch their own exceptions, and
\* classify_image and classify_document return [] on theirs; the import of
\* app.services.document_classifier at line 699 stands outside any try, and
\* that module imports transformers at its top (document_classifier.py 4),
\* so the run gets here only where transformers is installed.
AnalysisInferred(j) ==
    /\ jobs[j].phase = 2 /\ jobs[j].pc = "body"
    /\ photos[jobs[j].photo].row
    /\ "transformers" \notin unavailable
    /\ \E tag_results \in TagResults(jobs[j].photo) :
          jobs' = SetJob(j, [jobs[j] EXCEPT
                    !.pc = "save",
                    !.results = [faces |-> FaceResults(jobs[j].photo),
                                 animals |-> Cardinality(Found(AnimalResults(jobs[j].photo))),
                                 tags |-> unique_tags(tag_results)]])
    /\ storage' = CropsSaved(jobs[j].photo,
                             FaceResults(jobs[j].photo)
                                + Cardinality(Found(AnimalResults(jobs[j].photo))))
    /\ UNCHANGED <<deployment, clustering, upload, enrichment, pipeline, tasks, photos, completions>>

\* Variant of AnalysisRaise without the rollback: what the session has
\* flushed stays.
AnalysisRaiseKeepsFlushed(j, message) ==
    /\ tasks' = IF jobs[j].tracked
                THEN update_pipeline_task_error(jobs[j].photo, "analysis_error", message)
                ELSE tasks
    /\ jobs' = SetJob(j, [jobs[j] EXCEPT !.pc = AfterTaskUpdate(j), !.results = NoResults,
                                         !.seen = "unread", !.session = NoSession])
    /\ detections' = IF jobs[j].session.open
                     THEN [detections EXCEPT ![jobs[j].photo].faces = @ + jobs[j].results.faces,
                                             ![jobs[j].photo].animals = @ + jobs[j].results.animals]
                     ELSE detections
    /\ storage' = CropsAtRaise(j, message)
    /\ UNCHANGED <<deployment, clustering, upload, tag_rows, photo_tags, pipeline, photos, completions>>

\* The end of a run in the except branch of lines 902-912: what the session
\* holds is rolled back (893-897), the task is marked failed.
AnalysisRaise(j, message) ==
    /\ tasks' = IF jobs[j].tracked
                THEN update_pipeline_task_error(jobs[j].photo, "analysis_error", message)
                ELSE tasks
    /\ jobs' = SetJob(j, [jobs[j] EXCEPT !.pc = AfterTaskUpdate(j), !.results = NoResults,
                                         !.seen = "unread", !.session = NoSession])
    /\ storage' = CropsAtRaise(j, message)
    /\ UNCHANGED <<deployment, clustering, upload, enrichment, pipeline, photos, completions>>

\* The exceptions that can end the run where it stands: any step can fail
\* (storage, database); the import at line 699 fails where transformers is
\* not installed.
AnalysisErrors(j) ==
    IF jobs[j].pc = "body" /\ "transformers" \in unavailable
    THEN {"error", ImportErrorText}
    ELSE {"error"}

\* Lines 758-760 and 893-912: an exception while analysing, or while saving
\* (rolled back), marks the task failed with "analysis_error".
AnalysisFail(j) ==
    /\ jobs[j].phase = 2 /\ jobs[j].pc \in {"body", "save"}
    /\ photos[jobs[j].photo].row \/ jobs[j].session.open
    /\ \E message \in AnalysisErrors(j) : AnalysisRaise(j, message)

\* Lines 775-780: the Photo row vanished between the fetch and the write.
AnalysisVanished(j) ==
    /\ jobs[j].phase = 2 /\ jobs[j].pc = "save"
    /\ ~photos[jobs[j].photo].row
    /\ ~jobs[j].session.open
    /\ jobs' = SetJob(j, [jobs[j] EXCEPT !.pc = "done", !.revoked = FALSE,
                                         !.results = NoResults])
    /\ UNCHANGED <<deployment, clustering, upload, storage, enrichment, pipeline, tasks, photos, completions>>

\* Lines 782-814 and 828-830: the session is open, faces and animals are
\* flushed, and the Tag row of the next unique tag is looked up by name.
AnalysisTagSelect(j) ==
    /\ jobs[j].phase = 2 /\ jobs[j].pc = "save"
    /\ photos[jobs[j].photo].row
    /\ jobs[j].results.tags # <<>> /\ jobs[j].seen = "unread"
    /\ jobs' = SetJob(j, [jobs[j] EXCEPT !.seen = tag_rows[Head(jobs[j].results.tags).name],
                                         !.session.open = TRUE])
    /\ storage' = CropsFlushed(j)
    /\ UNCHANGED <<deployment, clustering, upload, enrichment, pipeline, tasks, photos, completions>>

\* Lines 848-854: the category of an existing Tag is raised from "general" to
\* another value, or from null to a value.
CategoryUpdate(existing, tag_data) ==
    IF \/ existing = "general" /\ tag_data.category # "general"
       \/ existing = "null" /\ tag_data.category # "null"
    THEN {<<tag_data.name, tag_data.category>>}
    ELSE {}

\* The attributes of the PhotoTag class (models/tag.py 26-41) and the keywords
\* the constructor is called with at line 862.  The declarative constructor
\* raises TypeError for a keyword that is no attribute of the class.
PhotoTagAttributes == {"photo_id", "tag_id", "confidence", "created_at", "photo", "tag"}
AnalysisLinkKeywords == {"photo_id", "tag_id", "confidence", "source"}
ConstructorAccepts(keywords) == keywords \subseteq PhotoTagAttributes

\* Variant of existing_link that takes the confidence of the new result.
existing_link_updated(link, tag_data) == <<tag_data.confidence>>

\* Lines 856-861: a link that the lookup finds is left as it is.
existing_link(link, tag_data) == link

\* Lines 832-863 for one unique tag.  A Tag not seen is inserted and flushed;
\* when a row of that name has been committed since the lookup, the flush
\* fails, the session is rolled back (which discards the flushed faces and
\* animals and the pending category updates) and the row is read again.  A Tag
\* that was seen gets its category update.  Then the link is looked up: when
\* there is one, the loop goes on; when there is none, PhotoTag(...) is
\* called with source='ai' and raises.
AnalysisTagLink(j) ==
    LET ph == jobs[j].photo
        tag_data == Head(jobs[j].results.tags)
        raced == jobs[j].seen = "absent" /\ tag_rows[tag_data.name] # "absent"
        inserted == jobs[j].seen = "absent" /\ ~raced
        session == IF raced
                   THEN [open |-> TRUE, lost |-> TRUE, categories |-> {}]
                   ELSE IF inserted THEN jobs[j].session
                   ELSE [jobs[j].session EXCEPT
                            !.categories = @ \cup CategoryUpdate(jobs[j].seen, tag_data)]
        linked == ~inserted /\ photo_tags[<<ph, tag_data.name>>] # <<>>
    IN  /\ jobs[j].phase = 2 /\ jobs[j].pc = "save"
        /\ jobs[j].results.tags # <<>> /\ jobs[j].seen # "unread"
        /\ IF linked
           THEN /\ jobs' = SetJob(j, [jobs[j] EXCEPT !.results.tags = Tail(@),
                                                     !.seen = "unread",
                                                     !.session = session])
                /\ photo_tags' = [photo_tags EXCEPT ![<<ph, tag_data.name>>] =
                                      existing_link(@, tag_data)]
                /\ UNCHANGED <<deployment, clustering, upload, storage, tag_rows, detections, pipeline, tasks,
                               photos, completions>>
           ELSE /\ ~ConstructorAccepts(AnalysisLinkKeywords)
                /\ AnalysisRaise(j, TypeErrorText)

\* The Photo column the Phase 2 commit writes (line 866).
AnalysisCommit(ph) == [photos EXCEPT ![ph].processed_at = TRUE]

\* The Face and AnimalDetection rows a commit adds: none when a rollback has
\* discarded them.
DetectionsCommit(ph, results, session) ==
    IF session.lost THEN detections
    ELSE [detections EXCEPT ![ph].faces = @ + results.faces,
                            ![ph].animals = @ + results.animals]

\* The category updates a commit writes.
CategoriesCommit(session) ==
    [n \in TagNames |->
        IF \E u \in session.categories : u[1] = n
        THEN (CHOOSE u \in session.categories : u[1] = n)[2]
        ELSE tag_rows[n]]

\* Lines 782-891: batch write, processed_at, commit; then the task is marked
\* 'completed' and progress is recomputed.
AnalysisSave(j) ==
    /\ jobs[j].phase = 2 /\ jobs[j].pc = "save"
    /\ photos[jobs[j].photo].row
    /\ jobs[j].results.tags = <<>>
    /\ photos' = AnalysisCommit(jobs[j].photo)
    /\ detections' = DetectionsCommit(jobs[j].photo, jobs[j].results, jobs[j].session)
    /\ tag_rows' = CategoriesCommit(jobs[j].session)
    /\ tasks' = IF jobs[j].tracked
                THEN update_pipeline_task_complete(jobs[j].photo, "completed")
                ELSE tasks
    /\ jobs' = SetJob(j, [jobs[j] EXCEPT !.pc = AfterTaskUpdate(j), !.results = NoResults,
                                         !.seen = "unread", !.session = NoSession])
    /\ storage' = CropsFlushed(j)
    /\ UNCHANGED <<deployment, clustering, upload, photo_tags, pipeline, completions>>

\* -------------------------------------------------------- cancel_pipeline
\* Variant of CancelSelected that takes every task of the pipeline.
CancelSelectedAll == {ph \in Photos : tasks[ph].status # "none"}

\* The tasks cancel_pipeline selects (lines 307-313).
CancelSelected == {ph \in Photos : tasks[ph].status \in ActiveStatuses}

JobLive(j) == jobs[j].pc \in {"queued", "body", "save", "progress", "write"}

\* celery_app.control.revoke(id, terminate=True) for the selected tasks that
\* carry a job id (lines 316-319); revoking a job that has ended does nothing.
Revoke(S) ==
    [j \in JobIds |->
        IF JobLive(j) /\ \E ph \in S : tasks[ph].celery_task_id = j
        THEN [jobs[j] EXCEPT !.revoked = TRUE]
        ELSE jobs[j]]

\* Variant of already_over that lets a completed pipeline be cancelled.
already_cancelled(status) == status = "cancelled"

\* pipeline_service.py 303-305: cancel_pipeline returns before it reads a
\* task when the pipeline is completed or cancelled.
already_over(status) == status \in {"completed", "cancelled"}

cancel_pipeline ==
    /\ pipeline.status # "none" /\ ~already_over(pipeline.status)
    /\ jobs' = Revoke(CancelSelected)
    /\ tasks' = [ph \in Photos |->
                    IF ph \in CancelSelected
                    THEN [tasks[ph] EXCEPT !.status = "cancelled"]
                    ELSE tasks[ph]]
    /\ pipeline' = [pipeline EXCEPT !.status = "cancelled", !.cancelled_at = TRUE]
    /\ UNCHANGED <<deployment, clustering, upload, storage, enrichment, photos, completions>>

\* The worker acts on a revoke: a job not yet started is dropped, a running
\* one is terminated.  Revocation is a broadcast that reaches the worker some
\* time after cancel_pipeline has sent it, so until then the job keeps running.
Terminate(j) ==
    /\ jobs[j].revoked
    /\ JobLive(j)
    /\ jobs' = SetJob(j, [jobs[j] EXCEPT !.pc = "killed", !.revoked = FALSE,
                                         !.ok = FALSE, !.snap = NoCounts,
                                         !.loaded = NoPipeline, !.results = NoResults,
                                         !.seen = "unread", !.session = NoSession])
    /\ UNCHANGED <<deployment, clustering, upload, storage, enrichment, pipeline, tasks, photos, completions>>

\* --------------------------------------------------------- rerun_pipeline
\* RerunPipelineRequest (pipelines.py 106-109) and the task query (287-302).
RerunRequests ==
    [task_ids : (SUBSET Photos) \ {{}}, failed_only : {TRUE}, include_skipped : {FALSE}]
    \cup [task_ids : {{}}, failed_only : BOOLEAN, include_skipped : BOOLEAN]

\* Variant of RerunSelected that takes every task of the pipeline.
RerunSelectedAll(req) == TaskRows

RerunSelected(req) ==
    IF req.task_ids # {}
    THEN req.task_ids \cap TaskRows
    ELSE IF req.failed_only
         THEN {ph \in TaskRows :
                 tasks[ph].status \in
                    (IF req.include_skipped THEN {"failed", "skipped"} ELSE {"failed"})}
         ELSE TaskRows

\* Lines 314-321: the reset of one task (total_time_ms and the per-stage
\* durations are not touched).
RerunReset(t, jid) ==
    [t EXCEPT !.status = "queued", !.error_type = "none", !.error_message = "none",
              !.completed_at = FALSE,
              !.started_at = FALSE, !.retry_count = 0, !.celery_task_id = jid]

\* Variant of currently_running that rejects no rerun.
never_running(status) == FALSE

\* pipelines.py 284-285: HTTP 400 for a pipeline that is running.
currently_running(status) == status = "running"

rerun_pipeline(req, limit) ==
    LET sel == RerunSelected(req) IN
    /\ pipeline.status # "none" /\ ~currently_running(pipeline.status)
    /\ sel # {}
    /\ JobsFit(Cardinality(sel), limit)
    /\ pipeline' = [pipeline EXCEPT !.status = "running", !.completed_at = FALSE]
    /\ tasks' = [ph \in Photos |->
                    IF ph \in sel THEN RerunReset(tasks[ph], JobIdFor(sel, ph))
                    ELSE tasks[ph]]
    /\ jobs' = EnqueueAll(sel, 1, TRUE)
    /\ UNCHANGED <<deployment, clustering, upload, storage, enrichment, photos, completions>>

\* ----------------------------------------------------------------- Next
WorkerStep(j) ==
    \/ InitialStart(j)
    \/ InitialFail(j, "download_failed")
    \/ InitialFail(j, "processing_error")
    \/ InitialSucceed(j)
    \/ AnalysisStart(j)
    \/ AnalysisNoOriginal(j)
    \/ AnalysisInferred(j)
    \/ AnalysisFail(j)
    \/ AnalysisSave(j)
    \/ ProgressRead(j)
    \/ ProgressCommit(j)

Next ==
    \/ \E n \in 0..MaxPhotos : Submit(1..n, MaxJobs)
    \/ \E j \in JobIds : SubmitEnqueueAnalysis(j, MaxJobs)
    \/ \E j \in JobIds : WorkerStep(j)
    \/ cancel_pipeline
    \/ \E j \in JobIds : Terminate(j)
    \/ \E req \in RerunRequests : rerun_pipeline(req, MaxJobs)

Spec == Init /\ [][Next]_vars

\* A submitted pipeline left to run: no cancel, no rerun.  Celery runs every
\* queued job and a running job takes its next step (weak fairness per job);
\* the Phase 2 job of a finished Phase 1 job is eventually handed over.
LiveNext ==
    \/ \E n \in 1..MaxPhotos : Submit(1..n, LiveJobs)
    \/ \E j \in JobIds : SubmitEnqueueAnalysis(j, LiveJobs)
    \/ \E j \in JobIds : WorkerStep(j)

LiveSpec ==
    /\ Init
    /\ [][LiveNext]_vars
    /\ \A j \in JobIds : WF_vars(WorkerStep(j))
    /\ \A j \in JobIds : WF_vars(SubmitEnqueueAnalysis(j, LiveJobs))
    /\ WF_vars(\E n \in 1..MaxPhotos : Submit(1..n, LiveJobs))

\* A pipeline that is submitted, runs, and is rerun once it has completed;
\* it is never cancelled.  One job more than in Spec is afforded, so that a
\* pipeline of MaxPhotos photos can be rerun.
RerunJobs == MaxJobs + 1

RerunNext ==
    \/ \E n \in 1..MaxPhotos : Submit(1..n, RerunJobs)
    \/ \E j \in JobIds : SubmitEnqueueAnalysis(j, RerunJobs)
    \/ \E j \in JobIds : WorkerStep(j)
    \/ \E req \in RerunRequests : rerun_pipeline(req, RerunJobs)

RerunSpec == Init /\ [][RerunNext]_vars

\* ------------------------------------------------ work outside a pipeline
NoPhoto == [row |-> FALSE, meta |-> FALSE, location_name |-> FALSE, processed_at |-> FALSE]

\* upload.py 136-170: a placeholder Photo row is committed and its Phase 1 job
\* is sent without a pipeline id.  Photo ids are fresh UUIDs.
confirm_upload(ph) ==
    /\ ~photos[ph].row
    /\ \A j \in UsedJobs : jobs[j].photo # ph
    /\ JobsFit(1, LiveJobs)
    /\ photos' = [photos EXCEPT ![ph] = [NoPhoto EXCEPT !.row = TRUE]]
    /\ jobs' = EnqueueAll({ph}, 1, FALSE)
    /\ UNCHANGED <<deployment, clustering, upload, storage, enrichment, pipeline, tasks, completions>>

\* photos.py 741-779: Phase 1 is sent for every photo of the user
\* (process_all) or for those whose processed_at is null.
RescanSelected(process_all) ==
    {ph \in Photos : photos[ph].row /\ (process_all \/ ~photos[ph].processed_at)}

rescan_photos(process_all) ==
    /\ RescanSelected(process_all) # {}
    /\ JobsFit(Cardinality(RescanSelected(process_all)), LiveJobs)
    /\ jobs' = EnqueueAll(RescanSelected(process_all), 1, FALSE)
    /\ UNCHANGED <<deployment, clustering, upload, storage, enrichment, pipeline, tasks, photos, completions>>

\* admin.py 263-314, scope "hashtags": with force_reset every photo's
\* processed_at is nulled and Phase 2 is sent for every photo; otherwise Phase 2
\* is sent for the photos whose processed_at is null.  Neither branch looks at
\* what Phase 1 has committed.
HashtagsSelected(force_reset) ==
    {ph \in Photos : photos[ph].row /\ (force_reset \/ ~photos[ph].processed_at)}

process_clustering_job(force_reset) ==
    /\ HashtagsSelected(force_reset) # {}
    /\ JobsFit(Cardinality(HashtagsSelected(force_reset)), LiveJobs)
    /\ photos' = IF force_reset
                 THEN [ph \in Photos |-> [photos[ph] EXCEPT !.processed_at = FALSE]]
                 ELSE photos
    /\ jobs' = EnqueueAll(HashtagsSelected(force_reset), 2, FALSE)
    /\ UNCHANGED <<deployment, clustering, upload, storage, enrichment, pipeline, tasks, completions>>

\* photos.py 586-627: hard delete of the Photo row; the rows that reference
\* it go with it (ondelete CASCADE: models/pipeline.py 103, tag.py 37,
\* person.py 48, animal.py 47).
permanently_delete_photo(ph) ==
    /\ photos[ph].row
    /\ photos' = [photos EXCEPT ![ph] = NoPhoto]
    /\ tasks' = [tasks EXCEPT ![ph] = NoTask]
    /\ photo_tags' = [l \in Photos \X TagNames |-> IF l[1] = ph THEN <<>> ELSE photo_tags[l]]
    /\ detections' = [detections EXCEPT ![ph] = NoDetections]
    /\ UNCHANGED <<deployment, clustering, upload, storage, tag_rows, pipeline, jobs, completions>>

\* The steps of a job that carries no pipeline id: it never recomputes progress.
IngestWorkerStep(j) ==
    \/ InitialStart(j)
    \/ InitialNotFound(j)
    \/ InitialFail(j, "download_failed")
    \/ InitialFail(j, "processing_error")
    \/ InitialSucceed(j)
    \/ AnalysisStart(j)
    \/ AnalysisNotFound(j)
    \/ AnalysisNoOriginal(j)
    \/ AnalysisInferred(j)
    \/ AnalysisFail(j)
    \/ AnalysisVanished(j)
    \/ AnalysisSave(j)

IngestInit ==
    /\ pipeline = NoPipeline
    /\ tasks = [ph \in Photos |-> NoTask]
    /\ photos = [ph \in Photos |-> NoPhoto]
    /\ jobs = [j \in JobIds |-> NoJob]
    /\ completions = 0
    /\ NoEnrichment
    /\ NoClustering
    /\ upload = NoUpload
    /\ storage = NoCrops

IngestNext ==
    \/ \E ph \in Photos : confirm_upload(ph)
    \/ \E process_all \in BOOLEAN : rescan_photos(process_all)
    \/ \E force_reset \in BOOLEAN : process_clustering_job(force_reset)
    \/ \E ph \in Photos : permanently_delete_photo(ph)
    \/ \E j \in JobIds : IngestWorkerStep(j)

IngestSpec == IngestInit /\ [][IngestNext]_vars

\* A pipeline that runs while its owner permanently deletes photos of it.
DeleteWorkerStep(j) ==
    \/ WorkerStep(j)
    \/ InitialNotFound(j)
    \/ AnalysisNotFound(j)
    \/ AnalysisVanished(j)

DeleteNext ==
    \/ \E n \in 1..MaxPhotos : Submit(1..n, MaxJobs)
    \/ \E j \in JobIds : SubmitEnqueueAnalysis(j, MaxJobs)
    \/ \E j \in JobIds : DeleteWorkerStep(j)
    \/ \E ph \in Photos : permanently_delete_photo(ph)

DeleteSpec == Init /\ [][DeleteNext]_vars

\* ------------------------------------------- scripts/rescan_photos.py
\* Position of an element in a sequence that lists it once.
IndexOf(order, n) == CHOOSE i \in 1..Len(order) : order[i] = n

\* The PhotoTag rows process_photo adds for one photo, where `labels` is the
\* order of the CLIP results and `words` the order of the OCR words.  The
\* session does not autoflush (core/database.py 59): the link the label loop
\* has added (lines 155-162) is seen by the lookup of the OCR loop (263-267)
\* only when something was flushed in between: a Tag inserted for a later
\* label (146), a Face (213), or a Tag inserted for an earlier word (249).
RescanFlushedSince(ph, labels, words, n) ==
    \/ "face" \notin unavailable /\ detections[ph].faces = 0 /\ images[ph].faces > 0
    \/ \E i \in 1..Len(labels) :
          i > IndexOf(labels, n) /\ tag_rows[labels[i]] = "absent"
    \/ \E i \in 1..Len(words) :
          /\ i < IndexOf(words, n)
          /\ \A k \in 1..Len(labels) : labels[k] # words[i]
          /\ tag_rows[words[i]] = "absent"

RescanLinks(ph, labels, words) ==
    LET found == classify_image(ph)
        inLabels(n) == \E i \in 1..Len(labels) : labels[i] = n
        inWords(n) == \E i \in 1..Len(words) : words[i] = n
        byLabel(n) == IF inLabels(n) /\ photo_tags[<<ph, n>>] = <<>>
                      THEN <<found[n]>> ELSE <<>>
        seen(n) == \/ photo_tags[<<ph, n>>] # <<>>
                   \/ byLabel(n) # <<>> /\ RescanFlushedSince(ph, labels, words, n)
        byWord(n) == IF inWords(n) /\ ~seen(n) THEN <<OcrScore>> ELSE <<>>
    IN  [l \in Photos \X TagNames |->
            IF l[1] = ph THEN photo_tags[l] \o byLabel(l[2]) \o byWord(l[2])
            ELSE photo_tags[l]]

\* Lines 139-153 and 241-259: the category of a label's Tag is set to
\* determine_category(label) whenever it differs; the Tag of a word is
\* created with "text", and set to "text" only when its category is null.
RescanTags(ph) ==
    [n \in TagNames |->
        IF n \in Found(classify_image(ph)) THEN determine_category(n)
        ELSE IF n \in OcrWords(ph) /\ tag_rows[n] \in {"absent", "null"} THEN "text"
        ELSE tag_rows[n]]

\* Variant of PrimaryKey without the (photo_id, tag_id) key.
NoPrimaryKey(links) == TRUE

\* models/tag.py 28: PrimaryKeyConstraint('photo_id', 'tag_id').
PrimaryKey(links) == \A l \in Photos \X TagNames : Len(links[l]) <= 1

\* Lines 56-281, process_photo for one photo in its own transaction: tags and
\* links from CLIP, the place name when it is missing, faces when the photo
\* has none (each with its crop, stored under the id of the flushed row),
\* tags and links from OCR, commit.  A commit the database rejects is rolled
\* back (276-278) and no row of the pass remains.
rescan_script(ph) ==
    /\ photos[ph].row
    /\ \E labels \in Orders(Found(classify_image(ph))), words \in Orders(OcrWords(ph)) :
          IF PrimaryKey(RescanLinks(ph, labels, words))
          THEN /\ photo_tags' = RescanLinks(ph, labels, words)
               /\ tag_rows' = RescanTags(ph)
               /\ photos' = [photos EXCEPT ![ph].location_name =
                                IF photos[ph].meta /\ Geocoded(ph) THEN TRUE ELSE @]
               /\ detections' = [detections EXCEPT ![ph].faces =
                                    IF @ = 0 THEN FaceResults(ph) ELSE @]
          ELSE UNCHANGED <<photo_tags, tag_rows, photos, detections>>
    /\ storage' = [storage EXCEPT ![ph].crops =
                       IF detections[ph].faces = 0 THEN @ + FaceResults(ph) ELSE @]
    /\ UNCHANGED <<deployment, clustering, upload, pipeline, tasks, jobs, completions>>

\* ------------------------------------------------ photos with content
\* The images of the model: a picnic (a face and a sign that reads "food"), a
\* market (a face, food that CLIP labels and a sign that reads "food") and a
\* page (a document with a bird on it).
Picnic == [NoImage EXCEPT !.faces = 1, !.words = {"food"}, !.gps = TRUE]
Market ==
    [NoImage EXCEPT !.faces = 1, !.labels = [NoFindings EXCEPT !["food"] = 1],
                    !.words = {"food"}]
Page ==
    [NoImage EXCEPT !.labels = [NoFindings EXCEPT !["text"] = 2],
                    !.documents = [NoFindings EXCEPT !["menu"] = 1],
                    !.animals = [NoFindings EXCEPT !["bird"] = 2],
                    !.words = {"menu"}]

\* Which photo shows what.
ImageOf(ph) == IF ph = 1 THEN Picnic ELSE IF ph = 2 THEN Market ELSE Page

\* Deployments in which at most one engine does not work.
Deployments == {{}} \cup {{e} : e \in Engines}

EnrichInit ==
    /\ pipeline = NoPipeline
    /\ tasks = [ph \in Photos |-> NoTask]
    /\ photos = [ph \in Photos |-> [NoPhoto EXCEPT !.row = TRUE]]
    /\ jobs = [j \in JobIds |-> NoJob]
    /\ completions = 0
    /\ unavailable \in Deployments
    /\ images = [ph \in Photos |-> ImageOf(ph)]
    /\ query_order = "id"
    /\ tag_rows = [n \in TagNames |-> "absent"]
    /\ photo_tags = [l \in Photos \X TagNames |-> <<>>]
    /\ detections = [ph \in Photos |-> NoDetections]
    /\ NoClustering
    /\ upload = NoUpload
    /\ storage = NoCrops

\* The steps of a job whose photo has tags to write.
EnrichWorkerStep(j) ==
    \/ WorkerStep(j)
    \/ AnalysisTagSelect(j)
    \/ AnalysisTagLink(j)

\* A pipeline over photos with content, in each of the deployments.
EnrichNext ==
    \/ \E n \in 1..MaxPhotos : Submit(1..n, MaxJobs)
    \/ \E j \in JobIds : SubmitEnqueueAnalysis(j, MaxJobs)
    \/ \E j \in JobIds : EnrichWorkerStep(j)

EnrichSpec == EnrichInit /\ [][EnrichNext]_vars

\* The tagging passes: the admin "hashtags" job sends Phase 2 jobs without a
\* pipeline, several for the same photo when it is run again, and the rescan
\* script works on the same photos.  One job more than in Spec is afforded.
TagJobs == MaxJobs + 1

TagWorkerStep(j) ==
    \/ AnalysisStart(j)
    \/ AnalysisNoOriginal(j)
    \/ AnalysisInferred(j)
    \/ AnalysisFail(j)
    \/ AnalysisTagSelect(j)
    \/ AnalysisTagLink(j)
    \/ AnalysisSave(j)

TagNext ==
    \/ \E force_reset \in BOOLEAN :
          /\ JobsFit(Cardinality(HashtagsSelected(force_reset)), TagJobs)
          /\ process_clustering_job(force_reset)
    \/ \E j \in JobIds : TagWorkerStep(j)
    \/ \E ph \in Photos : rescan_script(ph)

TagSpec == EnrichInit /\ [][TagNext]_vars

\* A pipeline over photos with content while scripts/rescan_photos.py works
\* on the same photos.
RaceNext ==
    \/ EnrichNext
    \/ \E ph \in Photos : rescan_script(ph)

RaceSpec == EnrichInit /\ [][RaceNext]_vars

\* ------------------------------------------------------- clustering
\* Encodings and embeddings are points on a line, in hundredths of the unit
\* of the euclidean distance the source clusters by.
FaceEps == 50            \* DBSCAN(eps=0.5, ...)
FaceMinSamples == 3      \* DBSCAN(..., min_samples=3, ...)
AnimalEps == 52          \* DBSCAN(eps=0.52, ...)
AnimalMinSamples == 2    \* DBSCAN(..., min_samples=2, ...)

\* Rows a table of the model holds at most.
MaxRows == MaxPhotos + 2

\* What detection yields, in the order of the photos analysed: three faces of
\* one person and then faces of others; a dog and a cat, and then the same
\* dog and the same cat seen again.
FaceEncoding(f) == IF f <= 3 THEN 20 * (f - 1) ELSE 300 * (f - 3)
AnimalLabels == {"dog", "cat"}
AnimalLabel(d) == IF d % 2 = 1 THEN "dog" ELSE "cat"
AnimalEmbedding(d) == 30 * ((d - 1) \div 2)

Dist(a, b) == IF a >= b THEN a - b ELSE b - a

\* sklearn.cluster.DBSCAN over the rows P, where at[p] is the point of row p.
\* A row is a core sample when at least min_samples rows (itself included)
\* lie within eps of it.
Neighbours(P, at, eps, p) == {q \in P : Dist(at[p], at[q]) <= eps}

\* Variant of CoreSamples in which every row is a core sample.
EverySample(P, at, eps, min_samples) == P

CoreSamples(P, at, eps, min_samples) ==
    {p \in P : Cardinality(Neighbours(P, at, eps, p)) >= min_samples}

\* The core samples density-connected to those of S.
RECURSIVE Connected(_, _, _, _)
Connected(C, at, eps, S) ==
    LET more == {c \in C : \E q \in S : Dist(at[c], at[q]) <= eps}
    IN  IF more \subseteq S THEN S ELSE Connected(C, at, eps, S \cup more)

\* The groups of density-connected core samples.
CoreGroups(P, at, eps, min_samples) ==
    LET C == CoreSamples(P, at, eps, min_samples)
    IN  {Connected(C, at, eps, {c}) : c \in C}

\* The clusters: each group with the non-core rows within eps of it.  A
\* non-core row within eps of two groups goes to the one expanded first, and
\* which that is follows from the order of the rows, which come from a query
\* without ORDER BY: `first` lists the groups in the order of expansion.
\* Rows of no cluster are noise (label -1).
DBSCAN(P, at, eps, min_samples, first) ==
    LET groups == CoreGroups(P, at, eps, min_samples)
        core == UNION groups
        reaches(g, p) == \E c \in g : Dist(at[c], at[p]) <= eps
        before(g, h) == \E i, k \in 1..Len(first) : i < k /\ first[i] = g /\ first[k] = h
    IN  {g \cup {p \in P \ core : /\ reaches(g, p)
                                  /\ \A h \in groups \ {g} : reaches(h, p) => before(g, h)}
            : g \in groups}

\* The clusters as a sequence, in an order of creation.
RECURSIVE Listed(_)
Listed(S) ==
    IF S = {} THEN <<>>
    ELSE LET g == CHOOSE x \in S : TRUE IN <<g>> \o Listed(S \ {g})

\* thumbnail_worker.py 782-814: the commit of a Phase 2 run adds a Face row
\* for a detected face and an AnimalDetection row for a detected animal,
\* both unassigned.
DetectFace ==
    /\ Len(faces) < MaxRows
    /\ faces' = Append(faces, [encoding |-> FaceEncoding(Len(faces) + 1), person_id |-> 0])
    /\ UNCHANGED <<pipeline, tasks, photos, jobs, completions, deployment, enrichment, upload, storage,
                   persons, animal_detections, animals, cluster_jobs,
                   cover_face_id, cover_detection_id>>

DetectAnimal ==
    /\ Len(animal_detections) < MaxRows
    /\ animal_detections' = Append(animal_detections,
                                [label |-> AnimalLabel(Len(animal_detections) + 1),
                                 embedding |-> AnimalEmbedding(Len(animal_detections) + 1),
                                 animal_id |-> 0])
    /\ UNCHANGED <<pipeline, tasks, photos, jobs, completions, deployment, enrichment, upload, storage,
                   faces, persons, animals, cluster_jobs, cover_face_id, cover_detection_id>>

\* admin.py 230-261: process_clustering_job sends one clustering task per
\* scope; nothing looks for a task of the user that is queued or running.
\* With force_reset the "faces" scope first deletes every Person of the user
\* (Face.person_id is SET NULL, models/person.py 51).
SendClusterTask(r, kind, force_reset) ==
    /\ cluster_jobs[r].pc \in {"none", "done"}
    /\ \A q \in 1..(r - 1) : cluster_jobs[q].pc \notin {"none", "done"}
    /\ Len(persons) <= MaxPhotos /\ Len(animals) <= MaxPhotos
    /\ cluster_jobs' = [cluster_jobs EXCEPT ![r] =
                           [NoClusterJob EXCEPT !.kind = kind, !.pc = "queued",
                                                !.force_reset = (force_reset /\ kind = "animals")]]
    /\ IF kind = "faces" /\ force_reset
       THEN /\ persons' = [p \in 1..Len(persons) |-> FALSE]
            /\ faces' = [f \in 1..Len(faces) |-> [faces[f] EXCEPT !.person_id = 0]]
            /\ cover_face_id' = [p \in 1..Len(persons) |-> 0]
       ELSE UNCHANGED <<persons, faces, cover_face_id>>
    /\ UNCHANGED <<pipeline, tasks, photos, jobs, completions, deployment, enrichment, upload, storage,
                   animal_detections, animals, cover_detection_id>>

\* Variant of Unassigned that reads every face.
EveryFace == 1..Len(faces)

\* face_clustering.py 13-31: the run reads the faces without a person.  A run
\* that finds none returns.
Unassigned == {f \in 1..Len(faces) : faces[f].person_id = 0}

cluster_faces_read(r) ==
    /\ cluster_jobs[r].kind = "faces" /\ cluster_jobs[r].pc = "queued"
    /\ cluster_jobs' = [cluster_jobs EXCEPT ![r] =
                           IF Unassigned = {} THEN [@ EXCEPT !.pc = "done"]
                           ELSE [@ EXCEPT !.pc = "read", !.read = Unassigned]]
    /\ UNCHANGED <<pipeline, tasks, photos, jobs, completions, deployment, enrichment, upload, storage,
                   faces, persons, animal_detections, animals,
                   cover_face_id, cover_detection_id>>

\* face_clustering.py 39-80: DBSCAN over the faces read, a new Person per
\* cluster, person_id of the faces of the cluster set, commit.  The UPDATE of
\* a Face names the row by its key: it overwrites what has been committed
\* since the read.
FaceEncodings == [f \in 1..Len(faces) |-> faces[f].encoding]

FaceGroups(read) == CoreGroups(read, FaceEncodings, FaceEps, FaceMinSamples)

FaceClusters(read, first) == DBSCAN(read, FaceEncodings, FaceEps, FaceMinSamples, first)

\* The queries of a clustering run have no ORDER BY; the rows come in the
\* order of their ids or in the reverse of it, one order per database.
QueryOrders == {"id", "reverse"}

\* The first of the rows S in the order of the query.
FirstRow(S) ==
    IF query_order = "id" THEN CHOOSE x \in S : \A y \in S : x <= y
    ELSE CHOOSE x \in S : \A y \in S : x >= y

\* Variant of cover_of that takes the cover from the cluster created first.
cover_of_first(created, i) == FirstRow(created[1])

\* face_clustering.py 76-78, animal_clustering.py 88: the cover of the i-th
\* Person or Animal created is cluster_faces[0] (cluster_dets[0]), the first
\* row of its cluster in the order of the rows read.
cover_of(created, i) == FirstRow(created[i])

cluster_faces_commit(r) ==
    /\ cluster_jobs[r].kind = "faces" /\ cluster_jobs[r].pc = "read"
    /\ \E first \in Orders(FaceGroups(cluster_jobs[r].read)) :
        \E created \in {Listed(FaceClusters(cluster_jobs[r].read, first))} :
          LET new_person(f) == CHOOSE i \in 1..Len(created) : f \in created[i]
          IN  /\ persons' = persons \o [i \in 1..Len(created) |-> TRUE]
              /\ cover_face_id' =
                    cover_face_id \o [i \in 1..Len(created) |-> cover_of(created, i)]
              /\ faces' = [f \in 1..Len(faces) |->
                              IF \E i \in 1..Len(created) : f \in created[i]
                              THEN [faces[f] EXCEPT !.person_id = Len(persons) + new_person(f)]
                              ELSE faces[f]]
    /\ cluster_jobs' = [cluster_jobs EXCEPT ![r].pc = "done"]
    /\ UNCHANGED <<pipeline, tasks, photos, jobs, completions, deployment, enrichment, upload, storage,
                   animal_detections, animals, cover_detection_id>>

\* Animal names are lists of words.  The name a run gives a new Animal
\* (animal_clustering.py 81): "Unnamed <Label> (<4 hex digits>)".
Placeholder(label) == <<"Unnamed", label, "(hex)">>

\* The names a user gives (animals.py 162-180 stores any string).
UserNames == {<<"Rex">>, <<"Unnamed", "stray">>}

\* Animal.name.like("Unnamed %"): the name starts with "Unnamed" and a space.
LikeUnnamed(name) == Len(name) >= 2 /\ name[1] = "Unnamed"

\* The place of a deleted Animal row.
NoAnimal == [row |-> FALSE, name |-> <<>>, renamed |-> FALSE]

\* animals.py 162-180, update_animal: the user renames an Animal (once, in
\* the model).  The row of an Animal that a run in flight has deleted is
\* locked until the run commits, and gone then.
update_animal(a, name) ==
    /\ a \in 1..Len(animals) /\ animals[a].row /\ ~animals[a].renamed
    /\ \A r \in ClusterJobIds : cluster_jobs[r].pc = "read" => a \notin cluster_jobs[r].deleted
    /\ animals' = [animals EXCEPT ![a].name = name, ![a].renamed = TRUE]
    /\ UNCHANGED <<pipeline, tasks, photos, jobs, completions, deployment, enrichment, upload, storage,
                   faces, persons, animal_detections, cluster_jobs,
                   cover_face_id, cover_detection_id>>

\* animal_clustering.py 18-35: the Animals a run with force_reset deletes.
animals_to_delete(force_reset) ==
    {a \in 1..Len(animals) : force_reset /\ animals[a].row /\ LikeUnnamed(animals[a].name)}

\* animal_clustering.py 37-50: the detections a run clusters are those
\* without an animal, after its own reset.
DetectionsRead(force_reset) ==
    {d \in 1..Len(animal_detections) :
        \/ animal_detections[d].animal_id = 0
        \/ animal_detections[d].animal_id \in animals_to_delete(force_reset)}

\* Variant of label_groups that clusters all detections together.
one_group(read) == {g \in {read} : Cardinality(g) >= 2}

\* animal_clustering.py 52-60: the detections are grouped by label; a group
\* of fewer than two is skipped.
label_groups(read) ==
    {g \in {{d \in read : animal_detections[d].label = l} : l \in AnimalLabels} :
        Cardinality(g) >= 2}

\* animal_clustering.py 62-89: DBSCAN within each group.
AnimalEmbeddings == [d \in 1..Len(animal_detections) |-> animal_detections[d].embedding]

AnimalGroups(read) ==
    UNION {CoreGroups(g, AnimalEmbeddings, AnimalEps, AnimalMinSamples) : g \in label_groups(read)}

AnimalClusters(read, first) ==
    UNION {DBSCAN(g, AnimalEmbeddings, AnimalEps, AnimalMinSamples, first) : g \in label_groups(read)}

\* animal_clustering.py 17-50 in one step: reset (not yet committed) and
\* read.  A run that finds no detection returns without a commit, and its
\* reset is rolled back with the session.
cluster_animals_read(r) ==
    LET force_reset == cluster_jobs[r].force_reset IN
    /\ cluster_jobs[r].kind = "animals" /\ cluster_jobs[r].pc = "queued"
    /\ cluster_jobs' = [cluster_jobs EXCEPT ![r] =
                           IF DetectionsRead(force_reset) = {}
                           THEN [@ EXCEPT !.pc = "done"]
                           ELSE [@ EXCEPT !.pc = "read", !.read = DetectionsRead(force_reset),
                                          !.deleted = animals_to_delete(force_reset)]]
    /\ UNCHANGED <<pipeline, tasks, photos, jobs, completions, deployment, enrichment, upload, storage,
                   faces, persons, animal_detections, animals,
                   cover_face_id, cover_detection_id>>

\* animal_clustering.py 52-91: a new Animal per cluster, animal_id of its
\* detections set, commit.  What the run wrote, its reset included, is in
\* the database as of the commit.
cluster_animals_commit(r) ==
    LET read == cluster_jobs[r].read
        deleted == cluster_jobs[r].deleted
    IN  /\ cluster_jobs[r].kind = "animals" /\ cluster_jobs[r].pc = "read"
        /\ \E first \in Orders(AnimalGroups(read)) :
            \E created \in {Listed(AnimalClusters(read, first))} :
              LET label_of(g) == animal_detections[CHOOSE d \in g : TRUE].label
                  new_animal(d) == CHOOSE i \in 1..Len(created) : d \in created[i]
              IN  /\ animals' = [a \in 1..Len(animals) |->
                                    IF a \in deleted THEN NoAnimal
                                    ELSE animals[a]]
                                \o [i \in 1..Len(created) |->
                                       [row |-> TRUE, name |-> Placeholder(label_of(created[i])),
                                        renamed |-> FALSE]]
                  /\ cover_detection_id' =
                        [a \in 1..Len(animals) |->
                            IF a \in deleted THEN 0 ELSE cover_detection_id[a]]
                        \o [i \in 1..Len(created) |-> cover_of(created, i)]
                  /\ animal_detections' = [d \in 1..Len(animal_detections) |->
                        IF \E i \in 1..Len(created) : d \in created[i]
                        THEN [animal_detections[d] EXCEPT !.animal_id = Len(animals) + new_animal(d)]
                        ELSE IF animal_detections[d].animal_id \in deleted
                        THEN [animal_detections[d] EXCEPT !.animal_id = 0]
                        ELSE animal_detections[d]]
        /\ cluster_jobs' = [cluster_jobs EXCEPT ![r].pc = "done", ![r].deleted = {}]
        /\ UNCHANGED <<pipeline, tasks, photos, jobs, completions, deployment, enrichment, upload, storage,
                       faces, persons, cover_face_id>>

\* Init with either order of the rows of a query.
ClusterInit ==
    /\ pipeline = NoPipeline
    /\ tasks = [ph \in Photos |-> NoTask]
    /\ photos = [ph \in Photos |-> [row |-> TRUE, meta |-> FALSE, location_name |-> FALSE,
                                     processed_at |-> FALSE]]
    /\ jobs = [j \in JobIds |-> NoJob]
    /\ completions = 0
    /\ unavailable = {}
    /\ images = [ph \in Photos |-> NoImage]
    /\ query_order \in QueryOrders
    /\ tag_rows = [n \in TagNames |-> "absent"]
    /\ photo_tags = [l \in Photos \X TagNames |-> <<>>]
    /\ detections = [ph \in Photos |-> NoDetections]
    /\ NoClustering
    /\ upload = NoUpload
    /\ storage = NoCrops

\* Detections and clustering tasks, sent at any time and run side by side by
\* the workers of the "low" queue; the animal runs without force_reset.
ClusterNext ==
    \/ DetectFace
    \/ DetectAnimal
    \/ \E r \in ClusterJobIds, force_reset \in BOOLEAN : SendClusterTask(r, "faces", force_reset)
    \/ \E r \in ClusterJobIds : SendClusterTask(r, "animals", FALSE)
    \/ \E r \in ClusterJobIds : cluster_faces_read(r)
    \/ \E r \in ClusterJobIds : cluster_faces_commit(r)
    \/ \E r \in ClusterJobIds : cluster_animals_read(r)
    \/ \E r \in ClusterJobIds : cluster_animals_commit(r)

ClusterSpec == ClusterInit /\ [][ClusterNext]_vars

\* Animal detections, animal clustering with and without force_reset, and the
\* user renaming animals.
AnimalClusterNext ==
    \/ DetectAnimal
    \/ \E r \in ClusterJobIds, force_reset \in BOOLEAN :
          SendClusterTask(r, "animals", force_reset)
    \/ \E r \in ClusterJobIds : cluster_animals_read(r)
    \/ \E r \in ClusterJobIds : cluster_animals_commit(r)
    \/ \E a \in 1..MaxRows, name \in UserNames : update_animal(a, name)

AnimalClusterSpec == ClusterInit /\ [][AnimalClusterNext]_vars

\* cluster_faces as a function of the encodings: a synthetic set of faces,
\* enough for two clusters and a face apart, at the places below (50 is
\* exactly eps away from 0), and one run at a time.
SyntheticFaces == 2 * FaceMinSamples + 1
SyntheticPoints == {0, 50, 300, 700}

SyntheticInit ==
    /\ pipeline = NoPipeline
    /\ tasks = [ph \in Photos |-> NoTask]
    /\ photos = [ph \in Photos |-> NoPhoto]
    /\ jobs = [j \in JobIds |-> NoJob]
    /\ completions = 0
    /\ NoEnrichment
    /\ faces \in [1..SyntheticFaces -> [encoding : SyntheticPoints, person_id : {0}]]
    /\ persons = <<>>
    /\ animal_detections = <<>>
    /\ animals = <<>>
    /\ cluster_jobs = [r \in ClusterJobIds |-> NoClusterJob]
    /\ cover_face_id = <<>>
    /\ cover_detection_id = <<>>
    /\ upload = NoUpload
    /\ storage = NoCrops

SyntheticNext ==
    \/ SendClusterTask(1, "faces", FALSE)
    \/ cluster_faces_read(1)
    \/ cluster_faces_commit(1)

SyntheticSpec == SyntheticInit /\ [][SyntheticNext]_vars

\* ------------------------------------------ Phase 1: what the file yields
\* The values Phase 1 derives from one stored original, as functions of the
\* file: nothing else exists while one file is looked at.
NothingElse ==
    /\ pipeline = NoPipeline
    /\ tasks = [ph \in Photos |-> NoTask]
    /\ photos = [ph \in Photos |-> NoPhoto]
    /\ jobs = [j \in JobIds |-> NoJob]
    /\ completions = 0
    /\ NoEnrichment
    /\ NoClustering
    /\ storage = NoCrops

OnlyUpload ==
    UNCHANGED <<pipeline, tasks, photos, jobs, completions, deployment, enrichment, clustering,
                storage>>

\* -- the perceptual hash.  imagehash.phash(img, hash_size=8) is a matrix of
\* hash_size * hash_size bits and str() of it the bits as hexadecimal digits,
\* most significant first; int(..., 16) is the number they spell.  The number
\* is kept here as four digits to the base 2^16, most significant first,
\* with its sign apart, so that all 64 bits are there.
hash_size == 8
Hex == 16
HexDigits == (hash_size * hash_size) \div 4
Word == Hex * Hex * Hex * Hex
HashWords == HexDigits \div 4

HashSamples ==
    {[k \in 1..HexDigits |-> IF k = 1 THEN top ELSE IF k = HexDigits THEN low ELSE mid] :
        top \in 0..(Hex - 1), mid \in {0, Hex - 1}, low \in {0, 1, Hex - 1}}

\* int(str(phash), 16): never negative.
IntOfHex(digits) ==
    [neg |-> FALSE,
     words |-> [i \in 1..HashWords |->
                  ((digits[4 * i - 3] * Hex + digits[4 * i - 2]) * Hex
                      + digits[4 * i - 1]) * Hex + digits[4 * i]]]

\* What a BigInteger column (PostgreSQL bigint) takes: -2^63 .. 2^63 - 1.
InBigInteger(v) ==
    IF v.neg
    THEN \/ v.words[1] < Word \div 2
         \/ v.words = [i \in 1..HashWords |-> IF i = 1 THEN Word \div 2 ELSE 0]
    ELSE v.words[1] < Word \div 2

\* None, and the NULL of the column: a number without words.
NoNumber == [neg |-> FALSE, words |-> <<>>]

HashInit ==
    /\ NothingElse
    /\ upload \in [pc : {"stored"}, hash : HashSamples, value : {NoNumber}, phash : {NoNumber}]

\* phash = compute_perceptual_hash(tmp_path)
compute_perceptual_hash ==
    /\ upload.pc = "stored"
    /\ upload' = [upload EXCEPT !.pc = "hashed", !.value = IntOfHex(upload.hash)]
    /\ OnlyUpload

\* photo.phash = phash and the commit: the value goes to the column as it
\* is; a value the column does not take fails the commit, the row keeps its
\* NULL and the task ends in the processing_error branch.
write_phash ==
    /\ upload.pc = "hashed"
    /\ upload' = IF InBigInteger(upload.value)
                 THEN [upload EXCEPT !.pc = "committed", !.phash = upload.value]
                 ELSE [upload EXCEPT !.pc = "failed"]
    /\ OnlyUpload

HashNext ==
    \/ compute_perceptual_hash
    \/ write_phash

HashSpec == HashInit /\ [][HashNext]_vars

\* -- the capture time.  A date and time as text, in EXIF or in a filename,
\* is its fields as the text spells them (the clock fields are left out:
\* every text below spells a valid time of day); NoDate is a text that is
\* not there, and None.
NoDate == [year |-> 0, month |-> 0, day |-> 0]
DateTexts == [year : {1999, 2000, 2099, 2100}, month : {2, 13}, day : {28, 30}]

DaysIn(year, month) ==
    IF month = 2
    THEN IF year % 4 = 0 /\ (year % 100 # 0 \/ year % 400 = 0) THEN 29 ELSE 28
    ELSE IF month \in {4, 6, 9, 11} THEN 30 ELSE 31

\* datetime.strptime and datetime(): the date, or None for ValueError.
strptime(text) ==
    IF /\ text.year >= 1
       /\ text.month \in 1..12
       /\ text.day \in 1..DaysIn(text.year, text.month)
    THEN text
    ELSE NoDate

AnyYear(year) == TRUE

\* if 2000 <= int(compact_pattern.group(1)) <= 2099
YearAccepted(year) == 2000 <= year /\ year <= 2099

\* exif is exif_data["DateTimeOriginal"]; whatsapp and compact are what
\* re.search finds in photo.filename for either pattern.
TakenInit ==
    /\ NothingElse
    /\ upload \in [pc : {"stored"}, exif : DateTexts \cup {NoDate},
                   whatsapp : DateTexts \cup {NoDate}, compact : DateTexts \cup {NoDate},
                   taken_at : {NoDate}, photo_taken_at : {NoDate}]

\* taken_at = None; if "DateTimeOriginal" in exif_data: try strptime
parse_taken_at ==
    /\ upload.pc = "stored"
    /\ upload' = [upload EXCEPT !.pc = "parsed",
                      !.taken_at = IF upload.exif # NoDate THEN strptime(upload.exif) ELSE NoDate]
    /\ OnlyUpload

\* photo.taken_at = taken_at; if not photo.taken_at: the first pattern
whatsapp_fallback ==
    /\ upload.pc = "parsed"
    /\ upload' = [upload EXCEPT !.pc = "whatsapp",
                      !.photo_taken_at =
                          IF upload.taken_at = NoDate /\ upload.whatsapp # NoDate
                          THEN strptime(upload.whatsapp)
                          ELSE upload.taken_at]
    /\ OnlyUpload

\* if not photo.taken_at: the second pattern, and the commit
compact_fallback ==
    /\ upload.pc = "whatsapp"
    /\ upload' = [upload EXCEPT !.pc = "resolved",
                      !.photo_taken_at =
                          IF /\ @ = NoDate
                             /\ upload.compact # NoDate
                             /\ YearAccepted(upload.compact.year)
                          THEN strptime(upload.compact)
                          ELSE @]
    /\ OnlyUpload

TakenNext ==
    \/ parse_taken_at
    \/ whatsapp_fallback
    \/ compact_fallback

TakenSpec == TakenInit /\ [][TakenNext]_vars

\* -- the renditions.  width and height are the original's, after the
\* rotation its EXIF orientation asks for; size is the requested edge.
sizes == {256, 512, 1024}
SourceEdges == {1, 2, 3, 255, 256, 257, 600, 1025, 1500, 2000}

Max(a, b) == IF a >= b THEN a ELSE b

\* The integer nearest to num / den, halves upwards.
Rounded(num, den) == (2 * num + den) \div (2 * den)

Always(size, width, height) == TRUE

\* scale = size / max(image.width, image.height); if scale < 1
Shrinks(size, width, height) == size < Max(width, height)

ThumbInit ==
    /\ NothingElse
    /\ upload \in [pc : {"stored"}, HAS_PYVIPS : BOOLEAN, width : SourceEdges,
                   height : SourceEdges, size : sizes, rendition : {<<0, 0>>}]

\* _generate_thumbnail_vips: image.resize(scale) gives each edge times scale,
\* rounded, and fails on an edge that shrinks to nothing; generate_thumbnail
\* catches that and falls back to PIL.
generate_thumbnail_vips ==
    /\ upload.pc = "stored"
    /\ upload.HAS_PYVIPS
    /\ LET longest == Max(upload.width, upload.height)
           resized == <<Rounded(upload.width * upload.size, longest),
                        Rounded(upload.height * upload.size, longest)>>
       IN  upload' =
               IF ~Shrinks(upload.size, upload.width, upload.height)
               THEN [upload EXCEPT !.pc = "rendered", !.rendition = <<upload.width, upload.height>>]
               ELSE IF resized[1] < 1 \/ resized[2] < 1
               THEN [upload EXCEPT !.pc = "vips_failed"]
               ELSE [upload EXCEPT !.pc = "rendered", !.rendition = resized]
    /\ OnlyUpload

\* PIL's round_aspect: of floor and ceil of num / den the one with the
\* smaller key, the floor on a tie, and at least 1.  In the first use the
\* key of n is |aspect - n / size|, in the second 0 for n = 0 and else
\* |aspect - size / n|.
Abs(n) == IF n >= 0 THEN n ELSE 0 - n

round_aspect_x(size, width, height) ==
    LET floor == (size * width) \div height
        ceil == IF floor * height = size * width THEN floor ELSE floor + 1
    IN  Max(IF Abs(width * size - floor * height) <= Abs(width * size - ceil * height)
            THEN floor ELSE ceil, 1)

round_aspect_y(size, width, height) ==
    LET floor == (size * height) \div width
        ceil == IF floor * width = size * height THEN floor ELSE floor + 1
    IN  Max(IF \/ floor = 0
               \/ Abs(width * floor - size * height) * ceil
                    <= Abs(width * ceil - size * height) * floor
            THEN floor ELSE ceil, 1)

\* _generate_thumbnail_pil: img.thumbnail((size, size)) leaves an image that
\* fits alone, and else keeps the aspect ratio.
generate_thumbnail_pil ==
    /\ \/ upload.pc = "stored" /\ ~upload.HAS_PYVIPS
       \/ upload.pc = "vips_failed"
    /\ upload' = [upload EXCEPT !.pc = "rendered", !.rendition =
           IF upload.size >= upload.width /\ upload.size >= upload.height
           THEN <<upload.width, upload.height>>
           ELSE IF upload.height >= upload.width
           THEN <<round_aspect_x(upload.size, upload.width, upload.height), upload.size>>
           ELSE <<upload.size, round_aspect_y(upload.size, upload.width, upload.height)>>]
    /\ OnlyUpload

ThumbNext ==
    \/ generate_thumbnail_vips
    \/ generate_thumbnail_pil

ThumbSpec == ThumbInit /\ [][ThumbNext]_vars

\* -- the original's key.  Per photo: whether the upload batch id is the
\* photo id (then both keys are one key), and under which keys the original
\* is stored.  A call to the storage service can fail.
Originals ==
    {o \in [pc : {"queued"}, same_id : BOOLEAN, at_source : BOOLEAN, at_dest : BOOLEAN,
            found_at_dest : {FALSE}, generated : {{}}, thumbnails : {{}},
            committed : {FALSE}, session : {FALSE}] :
        o.same_id => o.at_source = o.at_dest}

MoveInit ==
    /\ NothingElse
    /\ upload \in [Photos -> Originals]

\* Lines 249-470: 'async with AsyncSessionLocal() as db' encloses the whole
\* of Phase 1 after the task update; the session is closed when the run ends.
SessionScope(pc) == pc \notin {"succeeded", "failed"}

\* Lines 249-253: the session is opened and the Photo row is read.
fetch_photo(ph) ==
    /\ upload[ph].pc = "queued"
    /\ upload' = [upload EXCEPT ![ph].pc = "fetched", ![ph].session = SessionScope("fetched")]
    /\ OnlyUpload

\* Lines 274-298: the download from source_key and, when that raises, from
\* dest_key; download_failed when both raise.
download_original(ph) ==
    /\ upload[ph].pc = "fetched"
    /\ \E source_ok \in {FALSE, upload[ph].at_source}, dest_ok \in {FALSE, upload[ph].at_dest} :
          \E pc \in {IF source_ok \/ dest_ok THEN "downloaded" ELSE "failed"} :
             upload' = [upload EXCEPT ![ph].pc = pc,
                                      ![ph].found_at_dest = ~source_ok /\ dest_ok,
                                      ![ph].session = @ /\ SessionScope(pc)]
    /\ OnlyUpload

\* Lines 307-315: upload_bytes to dest_key; an exception is printed and
\* passed over.
upload_to_dest(o, stored) ==
    [o EXCEPT !.pc = "moved", !.at_dest = @ \/ stored]

\* Lines 300-315: nothing to do when the original was found under dest_key
\* or the ids are the same; else the bytes are uploaded under dest_key.
move_to_dest(ph) ==
    /\ upload[ph].pc = "downloaded"
    /\ \E stored \in BOOLEAN :
          upload' = [upload EXCEPT ![ph] =
                        IF upload[ph].found_at_dest \/ upload[ph].same_id
                        THEN [@ EXCEPT !.pc = "moved"]
                        ELSE upload_to_dest(@, stored)]
    /\ OnlyUpload

\* Variant of thumbnail_uploaded that passes a failure over.
thumbnail_attempted(o, size, stored) ==
    [o EXCEPT !.generated = @ \cup {size},
              !.thumbnails = IF stored THEN @ \cup {size} ELSE @]

\* Lines 323-338 for one size: generate_thumbnail and upload_bytes stand in
\* no try of their own, so a failure ends the run in the except of 458.
thumbnail_uploaded(o, size, stored) ==
    IF stored
    THEN [o EXCEPT !.generated = @ \cup {size}, !.thumbnails = @ \cup {size}]
    ELSE [o EXCEPT !.pc = "failed", !.session = @ /\ SessionScope("failed")]

\* Lines 320-339: the loop over sizes, smallest first.
generate_thumbnails(ph) ==
    /\ upload[ph].pc = "moved"
    /\ \E size \in sizes \ upload[ph].generated, stored \in BOOLEAN :
          /\ \A other \in sizes \ upload[ph].generated : size <= other
          /\ upload' = [upload EXCEPT ![ph] = thumbnail_uploaded(@, size, stored)]
    /\ OnlyUpload

\* Lines 340-470: after the loop, hashes and metadata are computed and
\* committed and the run succeeds, or an exception ends it before the commit.
finish_initial(ph) ==
    /\ upload[ph].pc = "moved"
    /\ upload[ph].generated = sizes
    /\ \E done \in BOOLEAN :
          upload' = [upload EXCEPT ![ph].pc = IF done THEN "succeeded" ELSE "failed",
                                   ![ph].committed = done,
                                   ![ph].session = FALSE]
    /\ OnlyUpload

\* Lines 539-559 of Phase 2: the Photo row is read in a session of its own,
\* which is closed before anything else is done.
analysis_fetch(ph) ==
    /\ upload[ph].pc = "succeeded"
    /\ upload' = [upload EXCEPT ![ph].pc = "analysis_fetched"]
    /\ OnlyUpload

\* Lines 575-584: Phase 2 downloads from dest_key and from nowhere else.
analysis_download(ph) ==
    /\ upload[ph].pc = "analysis_fetched"
    /\ \E dest_ok \in {FALSE, upload[ph].at_dest} :
          upload' = [upload EXCEPT ![ph].pc = IF dest_ok THEN "analysing" ELSE "no_original"]
    /\ OnlyUpload

MoveNext ==
    \E ph \in Photos :
        \/ fetch_photo(ph)
        \/ download_original(ph)
        \/ move_to_dest(ph)
        \/ generate_thumbnails(ph)
        \/ finish_initial(ph)
        \/ analysis_fetch(ph)
        \/ analysis_download(ph)

MoveSpec == MoveInit /\ [][MoveNext]_vars

\* -- the categories of CLIP's labels.  CANDIDATE_LABELS with the groups its
\* comments give it (classifier.py 11-27), each under the tag category of
\* the group; "general" holds the labels of "Misc".
CANDIDATE_LABELS ==
    [people |-> {"person", "man", "woman", "human", "child", "group of people", "selfie",
                 "crowd"},
     animals |-> {"animal", "dog", "cat", "bird", "wildlife", "pet", "horse"},
     documents |-> {"document", "receipt", "invoice", "text", "paper", "screenshot",
                    "computer screen", "interface", "software"},
     nature |-> {"nature", "beach", "mountain", "forest", "sunset", "sky", "tree", "flower",
                 "outdoor"},
     places |-> {"city", "building", "architecture", "street", "house", "landmark", "room",
                 "indoor"},
     general |-> {"food", "vehicle"}]

Labels == UNION {CANDIDATE_LABELS[g] : g \in DOMAIN CANDIDATE_LABELS}

\* The labels CLIP scores above the threshold in one image: none, one or two.
LabelInit ==
    /\ NothingElse
    /\ upload \in [pc : {"stored"},
                   labels : {{}} \cup {{a, b} : a, b \in Labels},
                   classification_results : {{}},
                   document_pass : {FALSE}]

\* classifier.py 72-82: each result carries determine_category(label).
classify_labels ==
    /\ upload.pc = "stored"
    /\ upload' = [upload EXCEPT
                     !.pc = "classified",
                     !.classification_results =
                         {[label |-> l, category |-> determine_category(l)] : l \in upload.labels}]
    /\ OnlyUpload

\* thumbnail_worker.py 713-727: the second pass runs if any result is of
\* category 'documents'.
document_detection ==
    /\ upload.pc = "classified"
    /\ upload' = [upload EXCEPT
                     !.pc = "tagged",
                     !.document_pass =
                         \E res \in upload.classification_results : res.category = "documents"]
    /\ OnlyUpload

LabelNext ==
    \/ classify_labels
    \/ document_detection

LabelSpec == LabelInit /\ [][LabelNext]_vars

\* ------------------------------------------------- Phase 2: save_crop
\* thumbnail_worker.py 174-213: the rectangle save_crop cuts out of an image
\* of width x height for a detection box (top, right, bottom, left) and a
\* padding, which is 0.4 for a face (line 624), 0.1 for an animal (666) and
\* 0.2 by default (174).  Paddings are in tenths.
ImageEdges == {8, 10}
BoxEdges == {-4, 0, 3, 8, 10, 13, 20}
Paddings == {1, 2, 4}

Min(a, b) == IF a <= b THEN a ELSE b

\* int() of a quotient: towards zero.
IntOf(n, d) == IF n >= 0 THEN n \div d ELSE -((-n) \div d)

\* Lines 184-196, the box after "Ensure within bounds" and then padded.
crop_box(width, height, box, padding) ==
    LET top == Max(0, box.top)
        right == Min(width, box.right)
        bottom == Min(height, box.bottom)
        left == Max(0, box.left)
        w == right - left
        h == bottom - top
    IN  [top |-> Max(0, IntOf(10 * top - h * padding, 10)),
         bottom |-> Min(height, IntOf(10 * bottom + h * padding, 10)),
         left |-> Max(0, IntOf(10 * left - w * padding, 10)),
         right |-> Min(width, IntOf(10 * right + w * padding, 10))]

\* A detection on an image: a box with top <= bottom and left <= right,
\* anywhere relative to the image.
CropInit ==
    /\ NothingElse
    /\ upload \in {d \in [pc : {"detected"}, width : ImageEdges, height : ImageEdges,
                          box : [top : BoxEdges, right : BoxEdges,
                                 bottom : BoxEdges, left : BoxEdges],
                          padding : Paddings] :
                      d.box.top <= d.box.bottom /\ d.box.left <= d.box.right}

\* Lines 180-213: img.crop, thumbnail, save and upload; any exception (an
\* empty or inverted rectangle cannot be saved as JPEG) is caught and False
\* is returned.
save_crop ==
    /\ upload.pc = "detected"
    /\ LET rect == crop_box(upload.width, upload.height, upload.box, upload.padding)
       IN  upload' = [pc |-> "cropped", width |-> upload.width, height |-> upload.height,
                      box |-> upload.box, padding |-> upload.padding, rect |-> rect,
                      saved |-> (rect.left < rect.right /\ rect.top < rect.bottom)]
    /\ OnlyUpload

CropNext == save_crop

CropSpec == CropInit /\ [][CropNext]_vars

\* ============================================================ properties
Processed == pipeline.completed_photos + pipeline.failed_photos + pipeline.skipped_photos

RecomputeReachedTotal(j) ==
    /\ jobs[j].pc = "write" /\ jobs'[j].pc = "done"
    /\ jobs[j].loaded.total_photos > 0
    /\ jobs[j].snap.completed + jobs[j].snap.failed + jobs[j].snap.skipped
          >= jobs[j].loaded.total_photos
    /\ pipeline'.completed_at

\* C2 (as stated): the pipeline's status enters 'completed' exactly once; no
\* later recompute, job completion or rerun makes it enter a second time.
C2_CompletedOnce == completions <= 1

\* C2 (amended): the pipeline's status enters 'completed' only at the commit
\* of a progress recompute that counted completed + failed + skipped >=
\* total_photos > 0; after a rerun has put the pipeline back to 'running' it
\* enters 'completed' again in the same way.
C2_CompletedOnlyAtRecompute ==
    [][(pipeline.status # "completed" /\ pipeline'.status = "completed")
          => \E j \in JobIds : RecomputeReachedTotal(j)]_vars

C2_Witness == completions = 2 /\ pipeline.status = "completed"

\* C3: a task in a terminal status changes status only through a rerun
\* (which resets it to 'queued'); no job step and no recompute changes it.
C3_TerminalOnlyByRerun ==
    [][\A ph \in Photos :
          (tasks[ph].status \in TerminalStatuses /\ tasks'[ph].status # tasks[ph].status)
             => (tasks'[ph].status = "queued" /\ pipeline'.status = "running"
                 /\ jobs'[tasks'[ph].celery_task_id].pc = "queued")]_vars

\* C4: processed_at of a photo goes from null to set only in the commit of a
\* Phase 2 job for that photo; no step of a Phase 1 job sets it.
C4_ProcessedOnlyByAnalysis ==
    [][\A ph \in Photos :
          (~photos[ph].processed_at /\ photos'[ph].processed_at)
             => \E j \in JobIds : /\ jobs[j].phase = 2 /\ jobs[j].photo = ph
                                  /\ jobs[j].pc = "save" /\ jobs'[j].pc # "save"]_vars

\* A photo whose Phase 1 job and then Phase 2 job have run to their end has
\* processed_at set, next to a photo whose processed_at is still null.
C4_Witness ==
    \E i, j \in JobIds :
        /\ jobs[i].phase = 1 /\ jobs[i].ok /\ jobs[i].pc = "chained"
        /\ jobs[j].phase = 2 /\ jobs[j].photo = jobs[i].photo /\ jobs[j].pc = "done"
        /\ photos[jobs[j].photo].processed_at
        /\ \E ph \in Photos : photos[ph].row /\ ~photos[ph].processed_at

\* C5: while the pipeline is cancelled (from the cancel's commit until a
\* rerun) none of its tasks is pending, queued or running.
C5_NoActiveTaskWhileCancelled ==
    pipeline.status = "cancelled"
        => \A ph \in Photos : tasks[ph].status \notin ActiveStatuses

\* The step is a commit of cancel_pipeline.
CancelStep == pipeline.status # "cancelled" /\ pipeline'.status = "cancelled"

\* C6: a cancel changes only the status of the tasks that were pending,
\* queued or running, and the pipeline's status and cancelled_at; the other
\* tasks and every Photo row are as before.
C6_CancelFrame ==
    [][CancelStep =>
          /\ photos' = photos
          /\ pipeline' = [pipeline EXCEPT !.status = "cancelled", !.cancelled_at = TRUE]
          /\ \A ph \in Photos :
                IF tasks[ph].status \in ActiveStatuses
                THEN tasks'[ph] = [tasks[ph] EXCEPT !.status = "cancelled"]
                ELSE tasks'[ph] = tasks[ph]]_vars

\* A cancelled pipeline with a task cancelled by the cancel next to a task that
\* had completed before it, whose photo keeps the Phase 1 metadata.
C6_Witness ==
    /\ pipeline.status = "cancelled" /\ pipeline.cancelled_at
    /\ \E ph, q \in Photos :
          /\ tasks[ph].status = "cancelled"
          /\ tasks[q].status = "completed" /\ photos[q].meta

\* Every job enqueued for the pipeline has run to its end and none is left to
\* be handed over.
AllJobsFinished ==
    /\ UsedJobs # {}
    /\ \A j \in UsedJobs :
          \/ jobs[j].pc = "chained"
          \/ jobs[j].pc = "done" /\ ~(jobs[j].phase = 1 /\ jobs[j].ok)

\* C7: once every job of the pipeline has finished, the completed, failed and
\* skipped counters equal the number of task rows in each of those statuses.
C7_CountersMatchRows ==
    AllJobsFinished =>
        /\ pipeline.completed_photos = CountStatus("completed")
        /\ pipeline.failed_photos = CountStatus("failed")
        /\ pipeline.skipped_photos = CountStatus("skipped")

C10_AnalysisAfterInitialCommit ==
    \A j \in UsedJobs :
        (jobs[j].phase = 2 /\ photos[jobs[j].photo].row) => photos[jobs[j].photo].meta

\* A tracked job ends its run without having marked its task completed.
EndsUnsuccessfully(j) ==
    /\ jobs[j].tracked
    /\ jobs[j].pc \in {"body", "save"}
    /\ jobs'[j].pc \in {"progress", "done"}
    /\ tasks'[jobs[j].photo].status # "completed"

C12_TransientFailureRetried ==
    \A j \in UsedJobs :
        (/\ jobs[j].pc = "done" /\ jobs[j].tracked
         /\ tasks[jobs[j].photo].celery_task_id = j
         /\ tasks[jobs[j].photo].status = "failed"
         /\ tasks[jobs[j].photo].error_type = "download_failed")
            => jobs[j].retries = MaxRetries(jobs[j].phase)

\* The step is a commit of rerun_pipeline.
RerunStep == pipeline.status \notin {"none", "running"} /\ pipeline'.status = "running"

\* The step enqueues a new Phase 1 job for photo ph.
GetsNewJob(ph) ==
    \E j \in JobIds : /\ jobs[j].pc = "none" /\ jobs'[j].pc = "queued"
                      /\ jobs'[j].photo = ph /\ jobs'[j].phase = 1 /\ jobs'[j].tracked

FailedTasks(include_skipped) ==
    {ph \in TaskRows : \/ tasks[ph].status = "failed"
                       \/ include_skipped /\ tasks[ph].status = "skipped"}

\* The tasks a rerun may touch as C14 states it: those of the id list, or
\* without an id list the failed (and skipped) ones.
StatedSelected(req) ==
    IF req.task_ids # {} THEN req.task_ids \cap TaskRows
    ELSE FailedTasks(req.include_skipped)

\* The same with the third mode of the request: no id list and failed_only
\* false takes every task.
AmendedSelected(req) ==
    IF req.task_ids # {} THEN req.task_ids \cap TaskRows
    ELSE IF req.failed_only THEN FailedTasks(req.include_skipped)
    ELSE TaskRows

SubmitStep == pipeline.status = "none" /\ pipeline'.status # "none"

AnalysisEnds(j) ==
    /\ jobs[j].phase = 2 /\ jobs[j].pc \in {"body", "save"}
    /\ jobs'[j].pc \notin {"body", "save"}

\* C17: when a Phase 2 run ends in any way but its commit (AnalysisSave), the
\* Photo rows are as they were (the fields Phase 1 committed, which stand for
\* its thumbnails too, and processed_at), and so are the Face,
\* AnimalDetection and PhotoTag rows and the Tag rows.
C17_FailedAnalysisLeavesNothing ==
    [][\A j \in JobIds :
          (AnalysisEnds(j) /\ ~AnalysisSave(j)) =>
              /\ photos' = photos
              /\ detections' = detections
              /\ photo_tags' = photo_tags
              /\ tag_rows' = tag_rows]_vars

\* A run that had a face to write and a flushed session has failed at the
\* link of its first tag; the photo has its Phase 1 fields and no detection.
C17_Witness ==
    \E ph \in Photos :
        /\ tasks[ph].status = "failed" /\ tasks[ph].error_message = TypeErrorText
        /\ FaceResults(ph) > 0
        /\ photos[ph].meta /\ photos[ph].location_name
        /\ detections[ph] = NoDetections

\* C18: for every photo and tag name there is at most one PhotoTag row, after
\* any sequence of tagging passes and Phase 2 runs, two concurrent Phase 2
\* jobs of the same photo included.
C18_OneLinkPerPhotoTag ==
    \A ph \in Photos, n \in TagNames : Len(photo_tags[<<ph, n>>]) <= 1

\* A pass has linked the photo to the tag, and two Phase 2 jobs of that photo
\* have both looked the tag up and stand before the lookup of its link.
C18_Witness ==
    \E ph \in Photos, n \in TagNames, j, k \in JobIds :
        /\ j # k
        /\ Len(photo_tags[<<ph, n>>]) = 1
        /\ \A i \in {j, k} :
              /\ jobs[i].phase = 2 /\ jobs[i].photo = ph /\ jobs[i].pc = "save"
              /\ jobs[i].seen # "unread"
              /\ Head(jobs[i].results.tags).name = n

\* C19: the category of a Tag, once it holds a specific value (neither
\* "general" nor null), is never changed by a tagging pass or a rescan.
C19_SpecificCategoryKept ==
    [][\A n \in TagNames :
          tag_rows[n] \notin {"absent", "null", "general"} => tag_rows'[n] = tag_rows[n]]_vars

\* C20: when a (photo, tag) link exists, a later tagging pass for the same
\* photo and tag leaves the confidence of the link unchanged and adds no row.
C20_ExistingLinkKept ==
    [][\A ph \in Photos, n \in TagNames :
          photo_tags[<<ph, n>>] # <<>> => photo_tags'[<<ph, n>>] = photo_tags[<<ph, n>>]]_vars

\* The script linked photo 2 to "food" with the confidence of the CLIP label;
\* a Phase 2 run of that photo, which holds the tag with the confidence of
\* OCR, has committed since (it raised the category of the Tag).
C20_Witness ==
    /\ photo_tags[<<2, "food">>] = <<classify_image(2)["food"]>>
    /\ classify_image(2)["food"] # OcrScore
    /\ tag_rows["food"] = "text"
    /\ photos[2].processed_at

\* C21: a Phase 2 run that commits for a photo an earlier Phase 2 run has
\* already committed for leaves the Face, AnimalDetection and PhotoTag rows
\* as the first run left them.
C21_SecondRunAddsNothing ==
    [][\A j \in JobIds :
          (AnalysisSave(j) /\ photos[jobs[j].photo].processed_at)
              => detections' = detections /\ photo_tags' = photo_tags]_vars

C23_OneLabelPerAnimal ==
    \A d, e \in 1..Len(animal_detections) :
        (animal_detections[d].animal_id # 0
            /\ animal_detections[d].animal_id = animal_detections[e].animal_id)
        => animal_detections[d].label = animal_detections[e].label

\* Dogs and cats have been clustered, each into an Animal of two detections,
\* and more than one run has created Animals.
C23_Witness ==
    /\ Len(animals) >= 3
    /\ \E d, e \in 1..Len(animal_detections) :
          /\ animal_detections[d].label # animal_detections[e].label
          /\ animal_detections[d].animal_id # 0 /\ animal_detections[e].animal_id # 0
          /\ \E c \in 1..Len(animal_detections) :
                c # d /\ animal_detections[c].animal_id = animal_detections[d].animal_id
          /\ \E c \in 1..Len(animal_detections) :
                c # e /\ animal_detections[c].animal_id = animal_detections[e].animal_id

\* C24: cluster_animals with force_reset deletes no Animal the user has
\* renamed and unassigns none of its detections, whatever the name is.
C24_RenamedKept ==
    [][\A r \in ClusterJobIds :
          (cluster_animals_commit(r) /\ cluster_jobs[r].force_reset)
          => \A a \in 1..Len(animals) :
                (animals[a].row /\ animals[a].renamed)
                => /\ animals'[a] = animals[a]
                   /\ \A d \in 1..Len(animal_detections) :
                         animal_detections[d].animal_id = a
                         => animal_detections'[d].animal_id # 0]_vars

\* C25: at most one clustering job per user runs at a time, so two runs never
\* both read the same unassigned faces or detections and create separate
\* Persons or Animals from them: every Person a run created has the faces it
\* was created from, every Animal its detections.
C25_OneClusteringRun ==
    /\ \A p \in 1..Len(persons) :
          persons[p] => \E f \in 1..Len(faces) : faces[f].person_id = p
    /\ \A a \in 1..Len(animals) :
          animals[a].row => \E d \in 1..Len(animal_detections) :
                               animal_detections[d].animal_id = a

\* Faces within eps of each other.
Near(f, g) == Dist(faces[f].encoding, faces[g].encoding) <= FaceEps

Alike(P, f) == {g \in P : Near(f, g)}

\* The set P is made of two well-separated clusters of at least 3 faces each
\* and of isolated faces: faces near a common face are near each other, two
\* of the groups so formed have 3 faces or more, the others are single faces.
TwoClusters(P) ==
    /\ \A f, g, h \in P : (Near(f, g) /\ Near(g, h)) => Near(f, h)
    /\ Cardinality({Alike(P, f) : f \in P} \cap {G \in SUBSET P : Cardinality(G) >= 3}) = 2
    /\ \A f \in P : Cardinality(Alike(P, f)) \in {1} \cup (3..Cardinality(P))

\* C26: for unassigned faces made of two well-separated clusters of at least
\* 3 faces each plus isolated faces, cluster_faces creates exactly two
\* Persons, gives the faces of each cluster their own Person and leaves the
\* isolated faces without a person.
C26_TwoClustersTwoPersons ==
    [][\A r \in ClusterJobIds :
          (cluster_faces_commit(r) /\ TwoClusters(cluster_jobs[r].read))
          => LET P == cluster_jobs[r].read IN
             /\ Len(persons') = Len(persons) + 2
             /\ \A p \in (Len(persons) + 1)..Len(persons') : persons'[p]
             /\ \A f \in P :
                   IF Cardinality(Alike(P, f)) >= 3
                   THEN /\ faces'[f].person_id > Len(persons)
                        /\ \A g \in P : (faces'[g].person_id = faces'[f].person_id) <=> Near(f, g)
                   ELSE faces'[f].person_id = 0]_vars

\* A run has committed over such a set in which one face stands apart: two
\* Persons, one face without a person.
C26_Witness ==
    /\ cluster_jobs[1].pc = "done"
    /\ cluster_jobs[1].read = 1..SyntheticFaces
    /\ Len(persons) = 2
    /\ Cardinality({f \in 1..Len(faces) : faces[f].person_id = 0}) = 1
    /\ \E f, g \in 1..Len(faces) :
          faces[f].person_id = 1 /\ faces[g].person_id = 1 /\ Dist(faces[f].encoding, faces[g].encoding) = FaceEps

\* The number 2^64 - h of a 64-bit h >= 2^63, by complementing every word
\* and adding one.
RECURSIVE AddOne(_, _)
AddOne(words, i) ==
    IF i = 0 THEN words
    ELSE IF words[i] = Word - 1 THEN AddOne([words EXCEPT ![i] = 0], i - 1)
    ELSE [words EXCEPT ![i] = @ + 1]

SignedWrapped(digits) ==
    LET h == IntOfHex(digits)
    IN  IF h.words[1] < Word \div 2 THEN h
        ELSE [neg |-> TRUE,
              words |-> AddOne([i \in 1..HashWords |-> Word - 1 - h.words[i]], HashWords)]

Parsable(text) ==
    /\ text.year >= 1
    /\ text.month >= 1 /\ text.month <= 12
    /\ text.day >= 1 /\ text.day <= DaysIn(text.year, text.month)

\* C28: the capture time Phase 1 commits is the embedded capture time when it
\* parses, else the time of the filename pattern 'YYYY-MM-DD at HH.MM.SS'
\* when it parses, else the time of the pattern 'YYYYMMDD_HHMMSS' when it
\* parses and its year is within 2000..2099, else null.
C28_CaptureTimeOrder ==
    upload.pc = "resolved" =>
        upload.photo_taken_at =
            IF Parsable(upload.exif) THEN upload.exif
            ELSE IF Parsable(upload.whatsapp) THEN upload.whatsapp
            ELSE IF Parsable(upload.compact) /\ upload.compact.year \in 2000..2099
                 THEN upload.compact
            ELSE NoDate

\* Both earlier sources are there and do not parse, and the time of the
\* compact pattern has been committed.
C28_Witness ==
    /\ upload.pc = "resolved"
    /\ upload.exif # NoDate /\ upload.whatsapp # NoDate
    /\ upload.compact = [year |-> 2099, month |-> 2, day |-> 28]
    /\ upload.photo_taken_at = upload.compact

\* An edge of the rendition is less than one pixel away from the original's
\* edge times size / longest edge.
WithinRounding(rendered, edge, size, longest) ==
    /\ rendered * longest > edge * size - longest
    /\ rendered * longest < edge * size + longest

\* C29: a rendition of an original whose longest edge exceeds the requested
\* edge has width and height at most the requested edge, each less than one
\* pixel away from the exact scaled edge; a rendition of any other original
\* has the original's width and height.
C29_RenditionSize ==
    upload.pc = "rendered" =>
        LET longest == IF upload.width >= upload.height THEN upload.width ELSE upload.height
        IN  IF longest > upload.size
            THEN /\ upload.rendition[1] <= upload.size
                 /\ upload.rendition[2] <= upload.size
                 /\ WithinRounding(upload.rendition[1], upload.width, upload.size, longest)
                 /\ WithinRounding(upload.rendition[2], upload.height, upload.size, longest)
            ELSE upload.rendition = <<upload.width, upload.height>>

\* A 2000 x 3 original rendered for edge 256 after libvips gave up on it, and
\* the rendition is 256 x 1.
C29_Witness ==
    /\ upload.pc = "rendered"
    /\ upload.HAS_PYVIPS
    /\ upload.width = 2000 /\ upload.height = 3 /\ upload.size = 256
    /\ upload.rendition = <<256, 1>>

C31_CancelledUntilRerun ==
    [][pipeline.status = "cancelled" /\ pipeline'.status # "cancelled" =>
          \E req \in RerunRequests : rerun_pipeline(req, MaxJobs)]_vars

\* A Phase 2 run of the photo is between its download and its end.
AnalysisRunning(ph) ==
    \E j \in JobIds : jobs[j].phase = 2 /\ jobs[j].photo = ph /\ jobs[j].pc \in {"body", "save"}

\* C32: when no Phase 2 run of a photo is under way, no crop of the photo is
\* left under a temporary key, and the photo has a crop under a final key
\* for each of its Face and AnimalDetection rows.
C32_CropsUnderFinalKeys ==
    \A ph \in Photos :
        ~AnalysisRunning(ph) =>
            /\ storage[ph].temp = 0
            /\ storage[ph].crops >= detections[ph].faces + detections[ph].animals

C34_CategoryOfOwnGroup ==
    /\ upload.pc \in {"classified", "tagged"} =>
          \A res \in upload.classification_results :
              res.label \in CANDIDATE_LABELS[res.category]
    /\ upload.pc = "tagged" =>
          (upload.document_pass <=> upload.labels \cap CANDIDATE_LABELS.documents # {})

\* C35: a photo whose hashes and metadata a Phase 1 run has committed has
\* its thumbnails of all three sizes in storage; so a run in which a
\* thumbnail failed has committed nothing.
C35_ThumbnailsBeforeCommit ==
    \A ph \in Photos : upload[ph].committed => upload[ph].thumbnails = {256, 512, 1024}

\* A run has committed, and another run has ended on a failed thumbnail
\* after its first size was uploaded.
C35_Witness ==
    \E ph, other \in Photos :
        /\ upload[ph].committed /\ upload[ph].pc = "succeeded"
        /\ upload[other].pc = "failed" /\ upload[other].thumbnails = {256}
        /\ ~upload[other].committed

\* C36: a job downloads the original only while it holds no database
\* session: the session that read the Photo row has been closed before.
C36_NoSessionWhileDownloading ==
    [][\A ph \in Photos :
          download_original(ph) \/ analysis_download(ph) => ~upload[ph].session]_vars

C38_CancelOfFinishedIsNoOp ==
    [][pipeline.status \in {"completed", "cancelled"} =>
          /\ ~cancel_pipeline
          /\ \A ph \in Photos : tasks'[ph].status = "cancelled" => tasks[ph].status = "cancelled"
          /\ \A j \in JobIds : jobs'[j].revoked => jobs[j].revoked
          /\ pipeline'.status = "cancelled" => pipeline.status = "cancelled"
          /\ pipeline'.cancelled_at => pipeline.cancelled_at]_vars

\* A completed pipeline with a task that cancel_pipeline would select and a
\* live job that it would revoke.
C38_Witness ==
    /\ pipeline.status = "completed"
    /\ \E ph \in CancelSelected : \E j \in JobIds : JobLive(j) /\ tasks[ph].celery_task_id = j

\* C39: while the pipeline is running no step is a rerun and no task is put
\* back to 'queued'; and no step is the rerun of a request whose selector
\* matches no task.
C39_RerunRejected ==
    [][/\ pipeline.status = "running" =>
            /\ \A req \in RerunRequests : ~rerun_pipeline(req, MaxJobs)
            /\ \A ph \in Photos : tasks'[ph].status = "queued" => tasks[ph].status = "queued"
       /\ \A req \in RerunRequests : RerunSelected(req) = {} => ~rerun_pipeline(req, MaxJobs)]_vars

\* A running pipeline with a failed task that a rerun of the failed tasks
\* would select and enqueue.
C39_Witness ==
    /\ pipeline.status = "running"
    /\ \E req \in RerunRequests :
          /\ req.task_ids = {} /\ req.failed_only
          /\ RerunSelected(req) # {}
          /\ JobsFit(Cardinality(RerunSelected(req)), MaxJobs)

\* C40: the rectangle save_crop cuts lies within the image and is well
\* formed, 0 <= left <= right <= width and 0 <= top <= bottom <= height, for
\* every image size, box and padding.
C40_CropWithinImage ==
    upload.pc = "cropped" =>
        /\ 0 <= upload.rect.left /\ upload.rect.left <= upload.rect.right
        /\ upload.rect.right <= upload.width
        /\ 0 <= upload.rect.top /\ upload.rect.top <= upload.rect.bottom
        /\ upload.rect.bottom <= upload.height

=============================================================================
